---------------------------- MODULE Spec2Model ----------------------------
(***************************************************************************)
(* Answer resolution pipeline of ocs_ai_answerer_advanced.py:              *)
(* answer_question walks the priority list of the question's type calling  *)
(* _call_custom_model once per eligible model, then falls back to the      *)
(* default ModelClient.chat, which retries up to MAX_RETRIES times.        *)
(***************************************************************************)
EXTENDS Integers, Sequences, FiniteSets, TLC

\* ------------------------------------------------------------------ bounds
MaxRetriesCfg == 3      \* MAX_RETRIES is drawn from 1..MaxRetriesCfg
MaxImages == 2          \* a question carries 0..MaxImages image URLs
MaxRich == 3            \* length of a raw answer over RichChars
MaxPlain == 5           \* length of a raw answer over PlainChars
MaxLabel == 4           \* length of a raw answer over LabelChars
MaxOptions == 2         \* number of options of a question
MaxJudge == 2           \* length of a raw answer over JudgeChars
MaxAttempts == 5        \* MAX_RETRIES of the retry study is 1..MaxAttempts
MaxClears == 1          \* number of calls of clear_csv

\* --------------------------------------------------------------- universe
None == "None"
ModelIds == {"m1", "m2"}
DefaultId == "model_client"

\* the priority lists a configuration file can hold for one question type
PriorityLists == {<<>>, <<"m1">>, <<"m1", "m2">>, <<"m2", "m1">>}

\* the lists the configuration holds for the synthetic "image" type
ImageLists == {<<>>, <<"m1">>}

\* a registry entry: absent (models.get returns None) or a configuration
NoModel == [present |-> FALSE, enabled |-> FALSE, is_multimodal |-> FALSE,
            supports_reasoning |-> FALSE, max_tokens |-> 0, name |-> None,
            is_system |-> FALSE, created_at |-> 0, updated_at |-> 0]

\* the defaults add_model gives to the fields a configuration leaves out
DefaultModel == [present |-> TRUE, enabled |-> TRUE, is_multimodal |-> FALSE,
                 supports_reasoning |-> FALSE, max_tokens |-> 2000,
                 name |-> "v1", is_system |-> FALSE, created_at |-> 0,
                 updated_at |-> 0]

ModelConfigs ==
    {NoModel,
     [DefaultModel EXCEPT !.enabled = FALSE, !.is_multimodal = TRUE],
     DefaultModel,
     [DefaultModel EXCEPT !.is_multimodal = TRUE]}

\* the configurations of a reasoning-capable or token-hungry custom model
ReasoningModelConfigs ==
    {[DefaultModel EXCEPT !.is_multimodal = mm, !.supports_reasoning = sr,
                          !.max_tokens = mt] :
        mm \in BOOLEAN, sr \in BOOLEAN, mt \in {2000, 100000}}

\* the question types a request of the pipeline model carries
AskedTypes == {"single", "multiple"}

\* values of the MAX_TOKENS / REASONING_MAX_TOKENS environment variables
TokenEnv == {<<0, 0>>, <<500, 4096>>, <<9000, 70000>>}

\* model_client = None
NoClient == [provider |-> None, clients |-> <<>>, enable_reasoning |-> FALSE,
             auto_reasoning_for_multiple |-> FALSE,
             auto_reasoning_for_images |-> FALSE]

\* download_image_as_base64 returned None
NoData == <<>>

\* answer_question has not returned yet
NoResponse == [success |-> FALSE, error |-> "pending", provider |-> None,
               reasoning_used |-> FALSE, model |-> None,
               response_provider |-> [mode |-> None, name |-> None],
               ocs_format |-> [model |-> None, provider |-> None,
                               reasoning_used |-> FALSE]]

\* the image URLs of a request (already de-duplicated and icon-filtered)
Url(i) == <<"url", i>>
UrlList(n) == [i \in 1..n |-> Url(i)]
Range(s) == {s[i] : i \in 1..Len(s)}

\* what client.chat.completions.create does: it returns a message whose
\* stripped content is empty or not, or raises an exception whose text shows
\* a parameter indicator ("400", "Invalid", "invalid_request_error",
\* "max_tokens") and/or a connectivity indicator ("connection", "timeout",
\* "image", "base64")
Outcomes ==
    {o \in [raised : BOOLEAN, content : {"", "A"}, param : BOOLEAN, conn : BOOLEAN] :
        /\ o.raised => o.content = ""
        /\ ~o.raised => (~o.param /\ ~o.conn)}

\* variant: tests 'is not None' instead of truthiness
Truthy_not_none(x) == x # None

\* Python truthiness of an Optional[str]
Truthy(x) == x # None /\ x # ""

\* -------------------------------------------------------- program constants
PREFER_MODEL == "deepseek"
IMAGE_MODEL == "doubao"
DEEPSEEK_MODEL == "deepseek-chat"
DOUBAO_MODEL == "doubao-seed"

Max(a, b) == IF a > b THEN a ELSE b
Min(a, b) == IF a < b THEN a ELSE b

\* max(1, min(limit, raw)) of the token configuration
ClampTokens(raw, limit) == Max(1, Min(limit, raw))

VARIABLES
    models,                \* custom_model_manager.models
    type_models,           \* question_type_models[q_type]['models']
    image_models,          \* question_type_models['image']['models']
    model_client,          \* the global default client, or None
    MAX_RETRIES,
    type_reasoning,        \* question_type_models[q_type]['enable_reasoning']
    MAX_TOKENS,
    REASONING_MAX_TOKENS,
    pc,                    \* position inside answer_question
    q_type,                \* the request's question type
    image_urls,            \* the request's image URLs
    force_reasoning,
    options,               \* the request's options, stripped and non-empty
    processed_answer,      \* what AnswerProcessor.process_answer returned
    idx,                   \* position of the for loop over type_models
    raw_answer,
    custom_model_id,
    response,
    selected_provider,     \* locals of ModelClient.chat
    base64_images,
    use_images,
    attempt,
    retry_without_images,
    dl_ok,                 \* history: URLs the last materialization fetched
    cand,                  \* history: the candidate invoked last
    cur,                   \* history: the calls made on that candidate
    tried,                 \* history: the candidates that returned, in order,
                           \* each with whether it answered
    csv_file,              \* the log file: whether it exists, and its rows
    w_pc,                  \* position of each request thread in the tail of
                           \* answer_question
    w_raw,                 \* raw_answer of each request thread
    file_exists,           \* local of save_to_csv, per thread
    rows,                  \* local of check_and_fix_csv_header, per thread
    responses,             \* what each request thread returned
    failed,                \* history: an error occurred in the thread's save
    appended,              \* history: the threads whose row was written
    clears,                \* number of calls of clear_csv so far
    clock,                 \* what time.time() and datetime.now() return
    result,                \* what the last call of the registry returned
    list_format,           \* whether question_type_models[t] is a dict or,
                           \* loaded from an old file, a plain list
    RATE_LIMIT_ATTEMPTS,
    RATE_LIMIT_WINDOW,
    failed_attempts,       \* security_manager.failed_attempts
    reqs                   \* the requests inside require_auth, per thread

config == <<models, type_models, image_models, model_client, MAX_RETRIES,
            type_reasoning, MAX_TOKENS, REASONING_MAX_TOKENS>>
request == <<q_type, image_urls, force_reasoning>>
answerv == <<options, processed_answer>>
chatv == <<selected_provider, base64_images, use_images, attempt, retry_without_images>>
auditv == <<csv_file, w_pc, w_raw, file_exists, rows, responses, failed,
            appended, clears>>
registryv == <<result, list_format>>
securityv == <<RATE_LIMIT_ATTEMPTS, RATE_LIMIT_WINDOW, failed_attempts, reqs>>
vars == <<models, type_models, image_models, model_client, MAX_RETRIES,
          type_reasoning, MAX_TOKENS, REASONING_MAX_TOKENS, pc, q_type,
          image_urls, force_reasoning, options, processed_answer, idx,
          raw_answer, custom_model_id, response, selected_provider,
          base64_images, use_images, attempt, retry_without_images, dl_ok,
          cand, cur, tried, csv_file, w_pc, w_raw, file_exists, rows,
          responses, failed, appended, clears, clock, result, list_format,
          RATE_LIMIT_ATTEMPTS, RATE_LIMIT_WINDOW, failed_attempts, reqs>>

\* the request threads of the server
Workers == {"t1", "t2"}

\* a row of the log: the header or a record, with its number of columns
correct_headers == [by |-> "header", cols |-> 16]
old_headers == [by |-> "header", cols |-> 11]
record(w) == [by |-> w, cols |-> 16]
old_record == [by |-> "old", cols |-> 11]

\* no log file
NoFile == [exists |-> FALSE, rows |-> <<>>]

\* answer_question has not returned yet on a thread
Pending == [success |-> FALSE, error |-> "pending", answer |-> <<>>]

\* no request thread is in the tail of answer_question
\* the registry types whose lists the model holds
RegTypes == {"single", "image"}

\* the client address whose failure records the model follows (the records
\* of an address are read and written only by requests from that address)
Ips == {"ip1"}

\* no call of the registry has returned yet
NoResult == [ok |-> TRUE, message |-> "none"]

\* a thread that is not inside require_auth
Idle == [pc |-> "idle", ip |-> None, api_key |-> None, kept |-> <<>>,
         code |-> None, ran |-> FALSE, recorded |-> FALSE, locked |-> FALSE,
         lifted |-> FALSE]

\* the registry calls and the authentication at rest
AdminRest ==
    /\ clock = 0
    /\ result = NoResult
    /\ list_format = [t \in RegTypes |-> "dict"]
    /\ RATE_LIMIT_ATTEMPTS = 5
    /\ RATE_LIMIT_WINDOW = 300
    /\ failed_attempts = [ip \in Ips |-> <<>>]
    /\ reqs = [w \in Workers |-> Idle]

AuditRest ==
    /\ csv_file = NoFile
    /\ w_pc = [w \in Workers |-> "idle"]
    /\ w_raw = [w \in Workers |-> <<>>]
    /\ file_exists = [w \in Workers |-> FALSE]
    /\ rows = [w \in Workers |-> <<>>]
    /\ responses = [w \in Workers |-> Pending]
    /\ failed = [w \in Workers |-> FALSE]
    /\ appended = {}
    /\ clears = 0

\* ------------------------------------------------------------ construction
\* module-level initialisation of model_client from the environment
NewModelClient(provider, deepseek_key, doubao_key, env) ==
    LET client(clients) ==
            [provider |-> provider, clients |-> clients,
             enable_reasoning |-> env.ENABLE_REASONING,
             auto_reasoning_for_multiple |-> env.AUTO_REASONING_FOR_MULTIPLE,
             auto_reasoning_for_images |-> env.AUTO_REASONING_FOR_IMAGES]
    IN  IF provider = "auto"
        THEN IF ~deepseek_key /\ ~doubao_key THEN NoClient
             ELSE client((IF deepseek_key THEN <<"deepseek">> ELSE <<>>)
                         \o (IF doubao_key THEN <<"doubao">> ELSE <<>>))
        ELSE IF provider = "deepseek"
        THEN IF ~deepseek_key THEN NoClient ELSE client(<<>>)
        ELSE IF ~doubao_key THEN NoClient ELSE client(<<>>)

\* the reasoning switches of the environment, and their defaults
ReasoningEnv ==
    [ENABLE_REASONING : BOOLEAN, AUTO_REASONING_FOR_MULTIPLE : BOOLEAN,
     AUTO_REASONING_FOR_IMAGES : BOOLEAN]
DefaultEnv ==
    [ENABLE_REASONING |-> FALSE, AUTO_REASONING_FOR_MULTIPLE |-> TRUE,
     AUTO_REASONING_FOR_IMAGES |-> TRUE]

\* the state of one worker before a request arrives
InitRequest ==
    /\ pc = "start"
    /\ q_type = None
    /\ image_urls = <<>>
    /\ force_reasoning = FALSE
    /\ options = <<>>
    /\ processed_answer = <<>>
    /\ idx = 1
    /\ raw_answer = None
    /\ custom_model_id = None
    /\ response = NoResponse
    /\ selected_provider = None
    /\ base64_images = <<>>
    /\ use_images = FALSE
    /\ attempt = 0
    /\ retry_without_images = FALSE
    /\ dl_ok = {}
    /\ cand = None
    /\ cur = <<>>
    /\ tried = <<>>
    /\ AuditRest
    /\ AdminRest

\* any registry and any default client, under the default reasoning and
\* token configuration.  The program reads a registry entry only through the
\* ids of the lists, so an id that no list names has no entry here.
Init ==
    /\ models \in [ModelIds -> ModelConfigs]
    /\ type_models \in PriorityLists
    /\ image_models \in ImageLists
    /\ \A m \in ModelIds :
          m \notin Range(type_models) \cup Range(image_models) => models[m] = NoModel
    /\ \E p \in {"deepseek", "doubao", "auto"}, dk \in BOOLEAN, bk \in BOOLEAN :
          model_client = NewModelClient(p, dk, bk, DefaultEnv)
    /\ MAX_RETRIES \in 1..MaxRetriesCfg
    /\ type_reasoning = FALSE
    /\ MAX_TOKENS = ClampTokens(500, 8192)
    /\ REASONING_MAX_TOKENS = ClampTokens(4096, 65536)
    /\ InitRequest

\* any reasoning and token configuration, with a registry of at most one
\* custom model
PolicyInit ==
    /\ models \in [ModelIds -> ReasoningModelConfigs \cup {NoModel}]
    /\ models["m2"] = NoModel
    /\ type_models \in {<<>>, <<"m1">>}
    /\ type_models = <<>> <=> models["m1"] = NoModel
    /\ image_models = <<>>
    /\ \E p \in {"deepseek", "doubao", "auto"}, dk \in BOOLEAN, bk \in BOOLEAN,
          env \in ReasoningEnv :
          model_client = NewModelClient(p, dk, bk, env)
    /\ MAX_RETRIES = 2
    /\ type_reasoning \in BOOLEAN
    /\ \E t \in TokenEnv :
          /\ MAX_TOKENS = ClampTokens(t[1], 8192)
          /\ REASONING_MAX_TOKENS = ClampTokens(t[2], 65536)
    /\ InitRequest

\* ---------------------------------------------------------------- helpers
get_model(model_id) == models[model_id]

\* ModelClient.download_image_as_base64: a data URI, or None on any error
download_image_as_base64(image_url, ok) ==
    IF image_url \in ok THEN <<"data", image_url>> ELSE NoData

RECURSIVE Materialize_stop_at_failure(_, _)
\* variant: the download loop stops at the first URL that fails
Materialize_stop_at_failure(urls, ok) ==
    IF urls = <<>> THEN <<>>
    ELSE LET base64_data == download_image_as_base64(Head(urls), ok)
         IN  IF base64_data # NoData
             THEN <<base64_data>> \o Materialize_stop_at_failure(Tail(urls), ok)
             ELSE <<>>

RECURSIVE Materialize(_, _)
\* the download loops of chat and _call_custom_model: keep what was fetched
Materialize(urls, ok) ==
    IF urls = <<>> THEN <<>>
    ELSE LET base64_data == download_image_as_base64(Head(urls), ok)
         IN  IF base64_data # NoData
             THEN <<base64_data>> \o Materialize(Tail(urls), ok)
             ELSE Materialize(Tail(urls), ok)

\* ModelClient._select_model, the provider it returns
select_model(urls) ==
    IF urls # <<>>
    THEN IF IMAGE_MODEL \in Range(model_client.clients) THEN IMAGE_MODEL
         ELSE IF model_client.clients # <<>> THEN model_client.clients[1]
         ELSE "none"
    ELSE IF PREFER_MODEL \in Range(model_client.clients) THEN PREFER_MODEL
         ELSE IF model_client.clients # <<>> THEN model_client.clients[1]
         ELSE "none"

\* the image part of the messages build_messages(use_image_urls) produces
build_messages(use_image_urls, provider, b64) ==
    IF use_image_urls /\ provider = "doubao" /\ b64 # <<>> THEN b64 ELSE <<>>

\* variant: the connectivity test shadows the parameter test
is_param_error_conn_first(e) == e.param /\ ~e.conn

is_param_error(e) == e.param

is_image_error(e, b64) == e.conn /\ b64 # <<>>

\* variant: the switch is not tied to the first attempt
disable_images_any_attempt(e, att, provider, b64, rwi) ==
    is_image_error(e, b64) /\ provider = "doubao" /\ b64 # <<>> /\ ~rwi

\* variant: the switch does not ask whether any image was materialized
disable_images_unguarded(e, att, provider, b64, rwi) ==
    e.conn /\ att = 1 /\ provider = "doubao" /\ ~rwi

\* the condition under which chat switches to the text-only retry
disable_images(e, att, provider, b64, rwi) ==
    is_image_error(e, b64) /\ att = 1 /\ provider = "doubao" /\ b64 # <<>> /\ ~rwi

\* variant: the image test comes before the parameter test
classify_image_first(e, att, provider, b64, rwi) ==
    IF e.conn /\ b64 # <<>> /\ att = 1 /\ provider = "doubao" /\ ~rwi THEN "image"
    ELSE IF e.param THEN "fatal"
    ELSE "generic"

\* the except block of the retry loop: what a failed attempt is taken for
classify(e, att, provider, b64, rwi) ==
    IF is_param_error(e) THEN "fatal"
    ELSE IF disable_images(e, att, provider, b64, rwi) THEN "image"
    ELSE "generic"

\* variant: the wait is not capped
wait_time_uncapped(att) == 2 ^ att

wait_time(att) == Min(2 ^ att, 10)

\* variant: the filter does not look at the enabled flag
eligible_ignores_enabled(model_id, urls) ==
    LET model == get_model(model_id)
    IN  /\ model # NoModel
        /\ (urls # <<>> => model.is_multimodal)

\* the candidate filter of the for loop of answer_question
eligible(model_id, urls) ==
    LET model == get_model(model_id)
    IN  /\ model # NoModel
        /\ model.enabled
        /\ (urls # <<>> => model.is_multimodal)

\* what _call_custom_model returns as the answer: the stripped content, or
\* None when the call raised
custom_result(out) == IF out.raised THEN None ELSE out.content

\* the loop variable of range(1, MAX_RETRIES + 1) after an iteration
next_attempt(att) == att + 1

\* variant: no fallback to the default client after the list
after_loop_no_fallback(i) == IF i > Len(type_models) THEN "done" ELSE "custom"

\* variant: the for loop gives up the list after its first position
after_loop_first_only(i) ==
    IF i > Len(type_models) \/ i > 1 THEN "default" ELSE "custom"

\* where answer_question goes when the for loop stands at position i
after_loop(i) == IF i > Len(type_models) THEN "default" ELSE "custom"

\* variant: the images are not a reason for reasoning
reasoning_policy_no_images(t, urls) ==
    \/ type_reasoning
    \/ (t = "multiple" /\ model_client.auto_reasoning_for_multiple)

\* force_reasoning as answer_question decides it for a request
reasoning_policy(t, urls) ==
    \/ type_reasoning
    \/ (t = "multiple" /\ model_client.auto_reasoning_for_multiple)
    \/ (urls # <<>> /\ model_client.auto_reasoning_for_images)

\* self.model of a ModelClient that is not in auto mode
client_model ==
    IF model_client.provider = "deepseek"
    THEN IF model_client.enable_reasoning THEN "deepseek-reasoner" ELSE DEEPSEEK_MODEL
    ELSE DOUBAO_MODEL

\* the model _select_model returns with a provider in auto mode
auto_model(provider) == IF provider = "deepseek" THEN DEEPSEEK_MODEL ELSE DOUBAO_MODEL

\* request_params of ModelClient.chat without the messages: the model, the
\* max_tokens limit and whether reasoning_effort is added
chat_request(provider, force) ==
    LET use_reasoning == model_client.enable_reasoning \/ force
        selected_model == IF model_client.provider = "auto"
                          THEN auto_model(provider) ELSE client_model
    IN  IF provider = "deepseek"
        THEN IF use_reasoning /\ ~model_client.enable_reasoning
             THEN [model |-> "deepseek-reasoner",
                   max_tokens |-> REASONING_MAX_TOKENS, reasoning |-> FALSE]
             ELSE IF model_client.enable_reasoning
             THEN [model |-> selected_model,
                   max_tokens |-> REASONING_MAX_TOKENS, reasoning |-> FALSE]
             ELSE [model |-> selected_model,
                   max_tokens |-> MAX_TOKENS, reasoning |-> FALSE]
        ELSE [model |-> selected_model,
              max_tokens |-> IF use_reasoning THEN REASONING_MAX_TOKENS
                             ELSE MAX_TOKENS,
              reasoning |-> (provider = "doubao" /\ use_reasoning)]

\* variant: the reasoning parameter follows the flag alone
custom_request_flag_only(model_id, force) ==
    [model |-> model_id,
     max_tokens |-> get_model(model_id).max_tokens,
     reasoning |-> force]

\* request_params of _call_custom_model without the messages
custom_request(model_id, force) ==
    [model |-> model_id,
     max_tokens |-> get_model(model_id).max_tokens,
     reasoning |-> (force /\ get_model(model_id).supports_reasoning)]

\* variant: reasoning is reported only for the default client
reasoning_used_default_only(force, model_id) ==
    model_id = None /\ (force \/ model_client.enable_reasoning)

\* reasoning_used as answer_question reports it
reasoning_used(force, model_id) ==
    force \/ (IF model_id = None THEN model_client.enable_reasoning ELSE FALSE)

\* model_name of answer_question: the display name of the listed model that
\* answered (its id stands for it), or what is computed after model_client.chat
model_name(model_id) ==
    IF model_id # None THEN model_id
    ELSE IF model_client.provider = "auto"
    THEN auto_model(select_model(image_urls))
    ELSE IF ~force_reasoning THEN client_model
    ELSE IF model_client.provider = "deepseek" THEN "deepseek-reasoner"
    ELSE client_model

\* response_provider of answer_question: custom(id), auto(provider) or the
\* provider of the client
response_provider(model_id) ==
    IF model_id # None THEN [mode |-> "custom", name |-> model_id]
    ELSE IF model_client.provider = "auto"
    THEN [mode |-> "auto", name |-> select_model(image_urls)]
    ELSE [mode |-> "fixed", name |-> model_client.provider]

\* the extra data of ocs_format: model, provider and reasoning_used
ocs_format(model_id) ==
    [model |-> model_name(model_id), provider |-> model_client.provider,
     reasoning_used |-> (force_reasoning \/ model_client.enable_reasoning)]

\* variant: the failure test looks only for None
respond_none_only(answer, model_id) ==
    IF answer = None
    THEN [NoResponse EXCEPT !.error = "no_answer"]
    ELSE [success |-> TRUE, error |-> None,
          provider |-> IF model_id # None THEN model_id ELSE DefaultId,
          reasoning_used |-> reasoning_used(force_reasoning, model_id),
          model |-> model_name(model_id),
          response_provider |-> response_provider(model_id),
          ocs_format |-> ocs_format(model_id)]

\* the tail of answer_question: the failure or the success response
respond(answer, model_id) ==
    IF ~Truthy(answer)
    THEN [NoResponse EXCEPT !.error = "no_answer"]
    ELSE [success |-> TRUE, error |-> None,
          provider |-> IF model_id # None THEN model_id ELSE DefaultId,
          reasoning_used |-> reasoning_used(force_reasoning, model_id),
          model |-> model_name(model_id),
          response_provider |-> response_provider(model_id),
          ocs_format |-> ocs_format(model_id)]

\* ---------------------------------------------------------------- actions
\* answer_question, from the request to the start of the candidate loop
AnswerQuestion(urls, t) ==
    /\ pc = "start"
    /\ IF model_client = NoClient
       THEN /\ response' = [NoResponse EXCEPT !.error = "init"]
            /\ pc' = "done"
            /\ UNCHANGED request
       ELSE /\ q_type' = t
            /\ image_urls' = urls
            /\ force_reasoning' = reasoning_policy(t, urls)
            /\ pc' = after_loop(1)
            /\ UNCHANGED response
    /\ UNCHANGED <<clock, registryv, securityv, auditv, config, answerv, idx, raw_answer, custom_model_id, chatv,
                   dl_ok, cand, cur, tried>>

\* one iteration of the for loop that skips the model
SkipCandidate ==
    /\ pc = "custom"
    /\ ~eligible(type_models[idx], image_urls)
    /\ idx' = idx + 1
    /\ pc' = after_loop(idx + 1)
    /\ UNCHANGED <<clock, registryv, securityv, auditv, config, request, answerv, raw_answer, custom_model_id,
                   response, chatv, dl_ok, cand, cur, tried>>

\* one iteration of the for loop that calls _call_custom_model; a truthy
\* answer breaks the loop and answer_question runs to its success response
CallCustomModel(ok, out) ==
    /\ pc = "custom"
    /\ eligible(type_models[idx], image_urls)
    /\ LET model_id == type_models[idx]
           model == get_model(model_id)
           with_images == image_urls # <<>> /\ model.is_multimodal
           content == IF with_images THEN Materialize(image_urls, ok) ELSE <<>>
           answer == custom_result(out)
       IN  /\ (~with_images => ok = {})
           /\ dl_ok' = ok
           /\ cand' = model_id
           /\ cur' = <<[attempt |-> 1, images |-> content, out |-> out, wait |-> 0,
                        flag |-> force_reasoning,
                        request |-> custom_request(model_id, force_reasoning),
                        class |-> IF out.raised THEN "caught" ELSE "ok"]>>
           /\ tried' = Append(tried, [id |-> model_id, answered |-> Truthy(answer),
                                      site |-> "call"])
           /\ raw_answer' = answer
           /\ IF Truthy(answer)
              THEN /\ custom_model_id' = model_id
                   /\ response' = respond(answer, model_id)
                   /\ pc' = "done"
                   /\ UNCHANGED idx
              ELSE /\ idx' = idx + 1
                   /\ pc' = after_loop(idx + 1)
                   /\ UNCHANGED <<custom_model_id, response>>
    /\ UNCHANGED <<clock, registryv, securityv, auditv, config, request, answerv, chatv>>

\* ModelClient.chat up to the retry loop: model selection and image download
DefaultStart(ok) ==
    /\ pc = "default"
    /\ ~Truthy(raw_answer) /\ model_client # NoClient
    /\ LET provider == IF model_client.provider = "auto"
                       THEN select_model(image_urls)
                       ELSE model_client.provider
           wanted == provider = "doubao" /\ image_urls # <<>>
           b64 == IF wanted THEN Materialize(image_urls, ok) ELSE <<>>
       IN  /\ (~wanted => ok = {})
           /\ selected_provider' = provider
           /\ base64_images' = b64
           /\ use_images' = (wanted /\ b64 # <<>>)
           /\ dl_ok' = ok
    /\ attempt' = 1
    /\ retry_without_images' = FALSE
    /\ cand' = DefaultId
    /\ cur' = <<>>
    /\ pc' = "attempt"
    /\ UNCHANGED <<clock, registryv, securityv, auditv, config, request, answerv, idx, raw_answer, custom_model_id,
                   response, tried>>

\* one iteration of the retry loop of ModelClient.chat; when chat returns,
\* from inside the loop or from the statements after it, answer_question
\* runs to its response
ChatAttempt(out) ==
    /\ pc = "attempt"
    /\ LET sent == IF retry_without_images
                   THEN build_messages(FALSE, selected_provider, base64_images)
                   ELSE build_messages(use_images, selected_provider, base64_images)
           class == IF ~out.raised THEN "ok"
                    ELSE classify(out, attempt, selected_provider, base64_images,
                                  retry_without_images)
           entry(w) == [attempt |-> attempt, images |-> sent, out |-> out, wait |-> w,
                        flag |-> force_reasoning,
                        request |-> chat_request(selected_provider, force_reasoning),
                        class |-> class]
           return(answer, site) ==
               /\ raw_answer' = answer
               /\ cur' = Append(cur, entry(0))
               /\ tried' = Append(tried, [id |-> DefaultId, answered |-> Truthy(answer),
                                          site |-> site])
               /\ response' = respond(answer, custom_model_id)
               /\ pc' = "done"
               /\ UNCHANGED attempt
       IN  IF class = "ok"
           THEN return(out.content, "loop") /\ UNCHANGED retry_without_images
           ELSE IF class = "fatal"
           THEN return(None, "loop") /\ UNCHANGED retry_without_images
           ELSE IF class = "image"
           THEN /\ retry_without_images' = TRUE
                /\ IF next_attempt(attempt) > MAX_RETRIES
                   THEN return(None, "after_loop")
                   ELSE /\ attempt' = next_attempt(attempt)
                        /\ cur' = Append(cur, entry(0))
                        /\ UNCHANGED <<raw_answer, tried, response, pc>>
           ELSE IF attempt >= MAX_RETRIES
           THEN return(None, "loop") /\ UNCHANGED retry_without_images
           ELSE /\ attempt' = next_attempt(attempt)
                /\ cur' = Append(cur, entry(wait_time(attempt)))
                /\ UNCHANGED <<raw_answer, tried, response, pc, retry_without_images>>
    /\ UNCHANGED <<clock, registryv, securityv, auditv, config, request, answerv, idx, custom_model_id,
                   selected_provider, base64_images, use_images, dl_ok, cand>>

Next ==
    \/ \E n \in 0..MaxImages, t \in AskedTypes : AnswerQuestion(UrlList(n), t)
    \/ SkipCandidate
    \/ \E ok \in SUBSET Range(image_urls), out \in Outcomes : CallCustomModel(ok, out)
    \/ \E ok \in SUBSET Range(image_urls) : DefaultStart(ok)
    \/ \E out \in Outcomes : ChatAttempt(out)

Spec == Init /\ [][Next]_vars

\* the same program under every reasoning and token configuration
PolicySpec == PolicyInit /\ [][Next]_vars

\* the retry loop under attempt bounds large enough for the cap of the
\* backoff wait, with a registry of at most one custom model
RetryInit ==
    /\ models \in [ModelIds -> ModelConfigs]
    /\ models["m2"] = NoModel
    /\ type_models \in {<<>>, <<"m1">>}
    /\ image_models = <<>>
    /\ \E p \in {"deepseek", "doubao", "auto"}, dk \in BOOLEAN, bk \in BOOLEAN :
          model_client = NewModelClient(p, dk, bk, DefaultEnv)
    /\ MAX_RETRIES \in 1..MaxAttempts
    /\ type_reasoning = FALSE
    /\ MAX_TOKENS = ClampTokens(500, 8192)
    /\ REASONING_MAX_TOKENS = ClampTokens(4096, 65536)
    /\ InitRequest

RetrySpec == RetryInit /\ [][Next]_vars

\* answer_question reads neither the list of the "image" type nor a registry
\* entry that the list of the question's type does not name, so the
\* behaviours checked for progress start with the former empty and the
\* latter absent.  A listed entry that is missing is skipped by the same test
\* as a disabled one, and an auto client holding one provider selects that
\* provider for every question, so these start with a listed entry present
\* and an auto client holding both providers.
LiveInit ==
    /\ Init
    /\ image_models = <<>>
    /\ \A m \in ModelIds :
          IF m \in Range(type_models) THEN models[m] # NoModel ELSE models[m] = NoModel
    /\ model_client.provider = "auto" => Len(model_client.clients) = 2

\* answer_question runs synchronously on its worker: a step that can be
\* taken is eventually taken
FairSpec == LiveInit /\ [][Next]_vars /\ WF_vars(Next)

TypeOK ==
    /\ pc \in {"start", "custom", "default", "attempt", "done", "process",
             "processed", "tail", "admin", "auth"}
    /\ attempt \in 0..MAX_RETRIES
    /\ idx \in 1..(Len(type_models) + 1)

\* --------------------------------------------------------- AnswerProcessor
\* A text is a sequence of characters.  A character outside ASCII is written
\* by its code point: "u3001" is the ideographic comma.
LowerMap ==
    "A" :> "a" @@ "B" :> "b" @@ "C" :> "c" @@ "D" :> "d" @@ "E" :> "e" @@
    "F" :> "f" @@ "G" :> "g" @@ "H" :> "h" @@ "I" :> "i" @@ "J" :> "j" @@
    "K" :> "k" @@ "L" :> "l" @@ "M" :> "m" @@ "N" :> "n" @@ "O" :> "o" @@
    "P" :> "p" @@ "Q" :> "q" @@ "R" :> "r" @@ "S" :> "s" @@ "T" :> "t" @@
    "U" :> "u" @@ "V" :> "v" @@ "W" :> "w" @@ "X" :> "x" @@ "Y" :> "y" @@
    "Z" :> "z"

\* what str.strip() removes and the regex class \s matches
Whitespace == {" ", "\t", "\n", "\r"}

\* the class [#;<U+FF1B><U+3001>\n] an answer of a multiple-choice question
\* is split on
Separators == {"#", ";", "uFF1B", "u3001", "\n"}

\* the class [<U+3002><U+FF0C><U+3001><U+FF1B><U+FF1A><U+FF01><U+FF1F>\s]
\* removed before the last comparison of _match_option
Punctuation ==
    {"u3002", "uFF0C", "u3001", "uFF1B", "uFF1A", "uFF01", "uFF1F"} \cup Whitespace

\* the class of markdown marks: asterisk, backtick (U+0060), underscore
Markdown == {"*", "u0060", "_"}

\* the three prefixes of the first regex of _clean_answer and the classes
\* that may follow them
AnswerPrefix == <<"u7B54", "u6848">>
CorrectAnswerPrefix == <<"u6B63", "u786E", "u7B54", "u6848">>
ChoosePrefix == <<"u9009", "u62E9">>
AnswerTail == {"u662F", "u4E3A", "uFF1A", ":"}
ChooseTail == {"uFF1A", ":"}

\* the class [.<U+3001>)] after the option letter
LabelMarks == {".", "u3001", ")"}

positive_words ==
    {<<"u6B63", "u786E">>, <<"u5BF9">>, <<"t", "r", "u", "e">>, <<"u221A">>,
     <<"u662F">>, <<"y", "e", "s">>, <<"u6210", "u7ACB">>}
negative_words ==
    {<<"u9519", "u8BEF">>, <<"u9519">>, <<"f", "a", "l", "s", "e">>, <<"u00D7">>,
     <<"u5426">>, <<"n", "o">>, <<"u4E0D", "u6210", "u7ACB">>}

QUESTION_TYPES == {"single", "multiple", "completion", "judgement"}

\* the inputs of process_answer: raw answers over a rich alphabet (case,
\* whitespace, separator, markdown) or, longer, over a plain one
RichChars == {"a", "b", "A", " ", "#", "*"}
PlainChars == {"a", "b", "#"}
Texts(chars, n) == UNION {[1..k -> chars] : k \in 0..n}
RawTexts == Texts(RichChars, MaxRich) \cup Texts(PlainChars, MaxPlain)

\* raw answers that carry option labels and markdown marks
LabelChars == {"A", ".", "a", "*"}
LabelTexts == Texts(LabelChars, MaxLabel)
OptionTexts == {<<"a">>, <<"b">>, <<"a", "b">>, <<"a", "#", "b">>}
OptionLists == UNION {[1..k -> OptionTexts] : k \in 0..MaxOptions}

\* the inputs of a judgement question: raw answers over a positive word
\* (U+5BF9), a negative word (U+9519) and a neutral letter; options that hold
\* a positive word (U+6210 U+7ACB), a negative word that contains it (U+4E0D
\* U+6210 U+7ACB), a negative word alone (U+5426), or no marker word
JudgeChars == {"u5BF9", "u9519", "x"}
JudgeTexts == Texts(JudgeChars, MaxJudge)
JudgeOptionTexts ==
    {<<"u6210", "u7ACB">>, <<"u4E0D", "u6210", "u7ACB">>, <<"u5426">>, <<"T">>}
JudgeOptionLists == UNION {[1..k -> JudgeOptionTexts] : k \in 0..MaxOptions}

\* the option lists given with a type whose branch of process_answer does
\* not read them: an empty list, a list of one option, a list of two
UnreadOptionLists == {<<>>, << <<"a">> >>, << <<"a">>, <<"b">> >>}

\* the q_type values process_answer is called with: the four names of
\* QUESTION_TYPES and a name outside them
TypeNames == QUESTION_TYPES \cup {"other"}

SetMin(S) == CHOOSE i \in S : \A j \in S : i <= j
SetMax(S) == CHOOSE i \in S : \A j \in S : i >= j

\* str.strip()
strip(text) ==
    LET keep == {i \in 1..Len(text) : text[i] \notin Whitespace}
    IN  IF keep = {} THEN <<>> ELSE SubSeq(text, SetMin(keep), SetMax(keep))

\* str.lower()
lower(text) ==
    [i \in 1..Len(text) |->
        IF text[i] \in DOMAIN LowerMap THEN LowerMap[text[i]] ELSE text[i]]

\* word in text
contains(text, word) ==
    \E i \in 0..(Len(text) - Len(word)) : SubSeq(text, i + 1, i + Len(word)) = word

\* re.sub of a character class with ''
remove_chars(text, chars) == SelectSeq(text, LAMBDA c : c \notin chars)

drop(text, n) == SubSeq(text, n + 1, Len(text))

\* what is left after a greedy class* at the start of text
drop_while(text, chars) ==
    LET stop == {i \in 1..Len(text) : text[i] \notin chars}
    IN  IF stop = {} THEN <<>> ELSE SubSeq(text, SetMin(stop), Len(text))

starts_with(text, prefix) ==
    Len(text) >= Len(prefix) /\ SubSeq(text, 1, Len(prefix)) = prefix

\* re.sub of the anchored prefix alternation with ''
sub_prefix(text) ==
    IF starts_with(text, AnswerPrefix)
    THEN drop_while(drop(text, Len(AnswerPrefix)), AnswerTail)
    ELSE IF starts_with(text, CorrectAnswerPrefix)
    THEN drop_while(drop(text, Len(CorrectAnswerPrefix)), AnswerTail)
    ELSE IF starts_with(text, ChoosePrefix)
    THEN drop_while(drop(text, Len(ChoosePrefix)), ChooseTail)
    ELSE text

\* re.sub of ^[A-Z][.<U+3001>)]\s* with ''
sub_label(text) ==
    IF Len(text) >= 2 /\ text[1] \in DOMAIN LowerMap /\ text[2] \in LabelMarks
    THEN drop_while(drop(text, 2), Whitespace)
    ELSE text

\* AnswerProcessor._clean_answer
clean_answer(text) ==
    IF text = <<>> THEN <<>>
    ELSE LET t1 == strip(sub_prefix(text))
             t2 == strip(remove_chars(t1, Markdown))
         IN  strip(sub_label(t2))

\* variant: only the exact comparison
match_option_exact(answer, option) ==
    LET a == strip(answer)
        o == strip(option)
    IN  a # <<>> /\ o # <<>> /\ lower(a) = lower(o)

\* AnswerProcessor._match_option
match_option(answer, option) ==
    LET a == strip(answer)
        o == strip(option)
    IN  IF a = <<>> \/ o = <<>> THEN FALSE
        ELSE \/ lower(a) = lower(o)
             \/ contains(lower(o), lower(a))
             \/ contains(lower(a), lower(o))
             \/ lower(remove_chars(a, Punctuation)) = lower(remove_chars(o, Punctuation))

\* the loop 'for option in options: if _match_option(...)': the position of
\* the first option that matches, 0 if the loop ends without one
first_match(answer, opts) ==
    LET hits == {i \in 1..Len(opts) : match_option(answer, opts[i])}
    IN  IF hits = {} THEN 0 ELSE SetMin(hits)

\* AnswerProcessor._process_single_choice
process_single_choice(raw, opts) ==
    IF opts = <<>> THEN clean_answer(raw)
    ELSE LET m1 == first_match(raw, opts)
             cleaned == clean_answer(raw)
             m2 == first_match(cleaned, opts)
         IN  IF m1 # 0 THEN strip(opts[m1])
             ELSE IF cleaned # raw /\ m2 # 0 THEN strip(opts[m2])
             ELSE IF cleaned # <<>> THEN cleaned
             ELSE raw

RECURSIVE split(_)
\* re.split on the separator class
split(text) ==
    LET seps == {i \in 1..Len(text) : text[i] \in Separators}
    IN  IF seps = {} THEN <<text>>
        ELSE <<SubSeq(text, 1, SetMin(seps) - 1)>> \o split(drop(text, SetMin(seps)))

RECURSIVE join(_)
\* "#".join
join(parts) ==
    IF parts = <<>> THEN <<>>
    ELSE IF Len(parts) = 1 THEN parts[1]
    ELSE parts[1] \o <<"#">> \o join(Tail(parts))

\* variant: the matched options are listed in the order of the option list
collect_in_option_order(answers, opts, matched) ==
    SelectSeq(opts, LAMBDA o : \E i \in 1..Len(answers) :
                                   /\ first_match(answers[i], opts) # 0
                                   /\ opts[first_match(answers[i], opts)] = o)

RECURSIVE collect_matches(_, _, _)
\* the matching loops of _process_multiple_choice: each answer adds the first
\* option it matches unless that option is already in the list
collect_matches(answers, opts, matched) ==
    IF answers = <<>> THEN matched
    ELSE LET m == first_match(Head(answers), opts)
         IN  IF m # 0 /\ strip(opts[m]) \notin Range(matched)
             THEN collect_matches(Tail(answers), opts, Append(matched, strip(opts[m])))
             ELSE collect_matches(Tail(answers), opts, matched)

\* AnswerProcessor._process_multiple_choice
process_multiple_choice(raw, opts) ==
    IF opts = <<>> THEN clean_answer(raw)
    ELSE LET raw_answers == split(raw)
             first_pass == collect_matches(raw_answers, opts, <<>>)
             kept == SelectSeq(raw_answers, LAMBDA ans : strip(ans) # <<>>)
             cleaned_answers == [i \in 1..Len(kept) |-> clean_answer(kept[i])]
             second_pass == collect_matches(cleaned_answers, opts, <<>>)
             cleaned == clean_answer(raw)
         IN  IF first_pass # <<>> THEN join(first_pass)
             ELSE IF second_pass # <<>> THEN join(second_pass)
             ELSE IF cleaned # <<>> THEN cleaned
             ELSE raw

\* the position of the first option holding one of the words, 0 if none
first_with_word(opts, words) ==
    LET hits == {i \in 1..Len(opts) : \E w \in words : contains(lower(opts[i]), w)}
    IN  IF hits = {} THEN 0 ELSE SetMin(hits)

\* variant: the second option is read without asking for its existence
second_option_unguarded(opts, cleaned) ==
    IF Len(opts) > 1 THEN strip(opts[2]) ELSE <<"IndexError">>

\* options[1].strip() if len(options) > 1 else cleaned
second_option(opts, cleaned) ==
    IF Len(opts) > 1 THEN strip(opts[2]) ELSE cleaned

\* AnswerProcessor._process_judgement
process_judgement(raw, opts) ==
    IF opts = <<>> THEN clean_answer(raw)
    ELSE LET m1 == first_match(raw, opts)
             cleaned == clean_answer(raw)
             m2 == first_match(cleaned, opts)
             cleaned_lower == lower(cleaned)
             has_positive == \E w \in positive_words : contains(cleaned_lower, w)
             has_negative == \E w \in negative_words : contains(cleaned_lower, w)
             p == first_with_word(opts, positive_words)
             n == first_with_word(opts, negative_words)
         IN  IF m1 # 0 THEN strip(opts[m1])
             ELSE IF cleaned # raw /\ m2 # 0 THEN strip(opts[m2])
             ELSE IF has_positive /\ ~has_negative
             THEN IF p # 0 THEN strip(opts[p]) ELSE strip(opts[1])
             ELSE IF has_negative /\ ~has_positive
             THEN IF n # 0 THEN strip(opts[n]) ELSE second_option(opts, cleaned)
             ELSE IF cleaned # <<>> THEN cleaned
             ELSE raw

\* AnswerProcessor.process_answer
process_answer(raw, t, opts) ==
    IF raw = <<>> THEN <<>>
    ELSE LET stripped == strip(raw)
             cleaned == clean_answer(stripped)
         IN  IF t = "single" THEN process_single_choice(stripped, opts)
             ELSE IF t = "multiple" THEN process_multiple_choice(stripped, opts)
             ELSE IF t = "judgement" THEN process_judgement(stripped, opts)
             ELSE IF cleaned # <<>> THEN cleaned
             ELSE stripped

\* a raw answer, a question type and an option list as answer_question hands
\* them to process_answer; the rest of the program is at rest
NormInit ==
    /\ models = [m \in ModelIds |-> NoModel]
    /\ type_models = <<>>
    /\ image_models = <<>>
    /\ model_client = NewModelClient("deepseek", TRUE, FALSE, DefaultEnv)
    /\ MAX_RETRIES = 1
    /\ type_reasoning = FALSE
    /\ MAX_TOKENS = ClampTokens(500, 8192)
    /\ REASONING_MAX_TOKENS = ClampTokens(4096, 65536)
    /\ pc = "process"
    /\ \/ /\ q_type \in {"single", "multiple", "judgement"}
          /\ options \in OptionLists
          /\ raw_answer \in RawTexts
       \/ /\ q_type \in TypeNames \ {"single", "multiple", "judgement"}
          /\ options \in UnreadOptionLists
          /\ raw_answer \in RawTexts
       \/ /\ q_type = "judgement"
          /\ options \in JudgeOptionLists
          /\ raw_answer \in JudgeTexts
       \/ /\ q_type = "completion"
          /\ options = <<>>
          /\ raw_answer \in LabelTexts
    /\ image_urls = <<>>
    /\ force_reasoning = FALSE
    /\ processed_answer = <<>>
    /\ idx = 1
    /\ custom_model_id = None
    /\ response = NoResponse
    /\ selected_provider = None
    /\ base64_images = <<>>
    /\ use_images = FALSE
    /\ attempt = 0
    /\ retry_without_images = FALSE
    /\ dl_ok = {}
    /\ cand = None
    /\ cur = <<>>
    /\ tried = <<>>
    /\ AuditRest
    /\ AdminRest

\* processed_answer = AnswerProcessor.process_answer(raw_answer, q_type, options)
ProcessAnswer ==
    /\ pc = "process"
    /\ processed_answer' = process_answer(raw_answer, q_type, options)
    /\ pc' = "processed"
    /\ UNCHANGED <<clock, registryv, securityv, auditv, config, request, options, idx, raw_answer, custom_model_id,
                   response, chatv, dl_ok, cand, cur, tried>>

NormNext == ProcessAnswer

NormSpec == NormInit /\ [][NormNext]_vars

\* ------------------------------------------------------------- audit log
\* The tail of answer_question on concurrent request threads: the answer is
\* processed, save_to_csv appends a row to the log file and the response is
\* returned.  Each step is one access to the file system.
IoOutcomes == {"ok", "error"}

\* the log files a server can start with: none, one with the current header,
\* one written by a version with fewer columns
InitFiles ==
    {NoFile,
     [exists |-> TRUE, rows |-> <<correct_headers>>],
     [exists |-> TRUE, rows |-> <<correct_headers, record("old")>>],
     [exists |-> TRUE, rows |-> <<old_headers, old_record>>]}

\* the raw answers of the threads: none, or a text
ThreadAnswers == {<<>>, <<"a">>, <<"A", " ">>}

AuditInit ==
    /\ models = [m \in ModelIds |-> NoModel]
    /\ type_models = <<>>
    /\ image_models = <<>>
    /\ model_client = NewModelClient("deepseek", TRUE, FALSE, DefaultEnv)
    /\ MAX_RETRIES = 1
    /\ type_reasoning = FALSE
    /\ MAX_TOKENS = ClampTokens(500, 8192)
    /\ REASONING_MAX_TOKENS = ClampTokens(4096, 65536)
    /\ pc = "tail"
    /\ q_type = "single"
    /\ image_urls = <<>>
    /\ force_reasoning = FALSE
    /\ options = << <<"a">>, <<"b">> >>
    /\ processed_answer = <<>>
    /\ idx = 1
    /\ raw_answer = None
    /\ custom_model_id = None
    /\ response = NoResponse
    /\ selected_provider = None
    /\ base64_images = <<>>
    /\ use_images = FALSE
    /\ attempt = 0
    /\ retry_without_images = FALSE
    /\ dl_ok = {}
    /\ cand = None
    /\ cur = <<>>
    /\ tried = <<>>
    /\ csv_file \in InitFiles
    /\ w_pc = [w \in Workers |-> "tail"]
    /\ w_raw \in [Workers -> ThreadAnswers]
    /\ file_exists = [w \in Workers |-> FALSE]
    /\ rows = [w \in Workers |-> <<>>]
    /\ responses = [w \in Workers |-> Pending]
    /\ failed = [w \in Workers |-> FALSE]
    /\ appended = {}
    /\ clears = 0
    /\ AdminRest

\* variant: an error of the save reaches the handler of answer_question
respond_after_save_propagates(answer, save_failed) ==
    IF save_failed
    THEN [success |-> FALSE, error |-> "exception", answer |-> <<>>]
    ELSE [success |-> TRUE, error |-> None, answer |-> answer]

\* the response answer_question builds after save_to_csv has returned
respond_after_save(answer, save_failed) ==
    [success |-> TRUE, error |-> None, answer |-> answer]

\* row.extend / row[:len(correct_headers)] of check_and_fix_csv_header
fix_row(row) == [row EXCEPT !.cols = correct_headers.cols]

\* fixed_rows of check_and_fix_csv_header
fixed_rows(old) ==
    <<correct_headers>> \o [i \in 1..(Len(old) - 1) |-> fix_row(old[i + 1])]

\* answer_question from the failure test on raw_answer to the call of
\* save_to_csv and its first os.path.exists
ProcessAndSave(w) ==
    /\ w_pc[w] = "tail"
    /\ IF w_raw[w] = <<>>
       THEN /\ responses' = [responses EXCEPT ![w] =
                                [success |-> FALSE, error |-> "no_answer",
                                 answer |-> <<>>]]
            /\ w_pc' = [w_pc EXCEPT ![w] = "done"]
       ELSE /\ w_pc' = [w_pc EXCEPT ![w] = IF csv_file.exists THEN "check"
                                           ELSE "exists"]
            /\ UNCHANGED responses
    /\ UNCHANGED <<clock, registryv, securityv, config, request, answerv, idx, raw_answer, custom_model_id,
                   response, chatv, dl_ok, cand, cur, tried, pc, csv_file,
                   w_raw, file_exists, rows, failed, appended, clears>>

\* check_and_fix_csv_header up to the end of its read of the file
CheckHeader(w, io) ==
    /\ w_pc[w] = "check"
    /\ IF ~csv_file.exists
       THEN /\ w_pc' = [w_pc EXCEPT ![w] = "exists"]
            /\ UNCHANGED <<rows, failed>>
       ELSE IF io = "error"
       THEN /\ w_pc' = [w_pc EXCEPT ![w] = "exists"]
            /\ failed' = [failed EXCEPT ![w] = TRUE]
            /\ UNCHANGED rows
       ELSE IF csv_file.rows = <<>> \/ csv_file.rows[1] = correct_headers
       THEN /\ w_pc' = [w_pc EXCEPT ![w] = "exists"]
            /\ UNCHANGED <<rows, failed>>
       ELSE /\ rows' = [rows EXCEPT ![w] = csv_file.rows]
            /\ w_pc' = [w_pc EXCEPT ![w] = "fix"]
            /\ UNCHANGED failed
    /\ UNCHANGED <<clock, registryv, securityv, config, request, answerv, idx, raw_answer, custom_model_id,
                   response, chatv, dl_ok, cand, cur, tried, pc, csv_file,
                   w_raw, file_exists, responses, appended, clears>>

\* check_and_fix_csv_header from the backup to the rewrite of the file
FixHeader(w, io) ==
    /\ w_pc[w] = "fix"
    /\ IF io = "error"
       THEN /\ failed' = [failed EXCEPT ![w] = TRUE]
            /\ UNCHANGED csv_file
       ELSE /\ csv_file' = [exists |-> TRUE, rows |-> fixed_rows(rows[w])]
            /\ UNCHANGED failed
    /\ w_pc' = [w_pc EXCEPT ![w] = "exists"]
    /\ UNCHANGED <<clock, registryv, securityv, config, request, answerv, idx, raw_answer, custom_model_id,
                   response, chatv, dl_ok, cand, cur, tried, pc, w_raw,
                   file_exists, rows, responses, appended, clears>>

\* file_exists = os.path.exists(csv_file)
FileExists(w) ==
    /\ w_pc[w] = "exists"
    /\ file_exists' = [file_exists EXCEPT ![w] = csv_file.exists]
    /\ w_pc' = [w_pc EXCEPT ![w] = "append"]
    /\ UNCHANGED <<clock, registryv, securityv, config, request, answerv, idx, raw_answer, custom_model_id,
                   response, chatv, dl_ok, cand, cur, tried, pc, csv_file,
                   w_raw, rows, responses, failed, appended, clears>>

\* the try block of save_to_csv, and answer_question from the return of
\* save_to_csv to its response
AppendRow(w, io) ==
    /\ w_pc[w] = "append"
    /\ LET save_failed == failed[w] \/ io = "error"
           answer == process_answer(w_raw[w], q_type, options)
       IN  /\ IF io = "error"
              THEN UNCHANGED <<csv_file, appended>>
              ELSE /\ csv_file' =
                         [exists |-> TRUE,
                          rows |-> csv_file.rows
                                   \o (IF file_exists[w] THEN <<>>
                                       ELSE <<correct_headers>>)
                                   \o <<record(w)>>]
                   /\ appended' = appended \cup {w}
           /\ failed' = [failed EXCEPT ![w] = save_failed]
           /\ responses' = [responses EXCEPT ![w] =
                               respond_after_save(answer, save_failed)]
    /\ w_pc' = [w_pc EXCEPT ![w] = "done"]
    /\ UNCHANGED <<clock, registryv, securityv, config, request, answerv, idx, raw_answer, custom_model_id,
                   response, chatv, dl_ok, cand, cur, tried, pc, w_raw,
                   file_exists, rows, clears>>

\* clear_csv: the file is rewritten with the header alone
ClearCsv(io) ==
    /\ clears < MaxClears
    /\ clears' = clears + 1
    /\ IF io = "error"
       THEN UNCHANGED <<csv_file, appended>>
       ELSE /\ csv_file' = [exists |-> TRUE, rows |-> <<correct_headers>>]
            /\ appended' = {}
    /\ UNCHANGED <<clock, registryv, securityv, config, request, answerv, idx, raw_answer, custom_model_id,
                   response, chatv, dl_ok, cand, cur, tried, pc, w_pc,
                   w_raw, file_exists, rows, responses, failed>>

AuditNext ==
    \/ \E w \in Workers : ProcessAndSave(w)
    \/ \E w \in Workers, io \in IoOutcomes : CheckHeader(w, io)
    \/ \E w \in Workers, io \in IoOutcomes : FixHeader(w, io)
    \/ \E w \in Workers : FileExists(w)
    \/ \E w \in Workers, io \in IoOutcomes : AppendRow(w, io)
    \/ \E io \in IoOutcomes : ClearCsv(io)

AuditSpec == AuditInit /\ [][AuditNext]_vars

\* ------------------------------------------------------- property helpers
Last(s) == s[Len(s)]

\* a failure showing a fatal indicator (bad request, invalid parameter,
\* output-length violation)
Fatal(o) == o.raised /\ o.param

\* a non-fatal failure showing a connectivity/timeout/encoding indicator
ConnFailure(o) == o.raised /\ ~o.param /\ o.conn

\* a failure showing neither a fatal nor a connectivity indicator
GenericFailure(o) == o.raised /\ ~o.param /\ ~o.conn

\* the candidate invoked last has returned to answer_question
Finished == tried # <<>> /\ Last(tried).id = cand

\* the ids of the listed (non-default) candidates that returned, in order
ListedTried == SelectSeq([i \in 1..Len(tried) |-> tried[i].id], LAMBDA m : m # DefaultId)

IsPrefix(s, t) == Len(s) <= Len(t) /\ \A i \in 1..Len(s) : s[i] = t[i]

\* position of a URL in the request's list
UrlIndex(u) == CHOOSE i \in 1..Len(image_urls) : image_urls[i] = u

\* equal ignoring case and surrounding whitespace
EqualsIgnoringCase(text, option) == lower(strip(text)) = lower(strip(option))

\* the sequences of distinct positions of the option list, and the '#'-join
\* of the options at these positions
OptionSeqs ==
    {s \in UNION {[1..k -> 1..Len(options)] : k \in 1..Len(options)} :
        \A k, l \in 1..Len(s) : k # l => options[s[k]] # options[s[l]]}
JoinOf(s) == join([k \in 1..Len(s) |-> options[s[k]]])

\* the characters of the raw answers and of the options
AllChars ==
    RichChars \cup PlainChars \cup JudgeChars \cup LabelChars
    \cup UNION {Range(o) : o \in OptionTexts \cup JudgeOptionTexts}

\* the text holds a marker word of the polarity
HasWord(text, words) == \E w \in words : contains(lower(text), w)

\* s is t with a prefix and a suffix removed
IsInfix(s, t) == \E i \in 1..(Len(t) + 1), j \in 0..Len(t) : s = SubSeq(t, i, j)

\* a custom model supports reasoning if its configuration says so; the
\* default client does with both of its providers (deepseek-reasoner for
\* deepseek, reasoning_effort for doubao)
SupportsReasoning(c) == c = DefaultId \/ models[c].supports_reasoning

\* ------------------------------------------------------------------ claims

\* C1: in the attempt loop of ModelClient.chat an attempt that fails with a
\* fatal error is never followed by another attempt on that candidate,
\* whichever attempt it is: chat returns failure at once, with no backoff
\* wait and no image-disabled retry.
C1_FatalNeverRetried ==
    cand = DefaultId =>
        \A i \in 1..Len(cur) :
            Fatal(cur[i].out) =>
                /\ i = Len(cur)
                /\ cur[i].wait = 0
                /\ pc = "done"
                /\ raw_answer = None
                /\ ~response.success

\* a fatal failure that also shows a connectivity indicator, on a first
\* attempt sent with images while further attempts were allowed
C1_Witness ==
    /\ cand = DefaultId
    /\ MAX_RETRIES >= 2
    /\ Len(cur) = 1
    /\ Fatal(cur[1].out) /\ cur[1].out.conn
    /\ cur[1].images # <<>>
    /\ pc = "done"

C3_ImageRetryFollows ==
    (/\ Finished
     /\ cand = DefaultId
     /\ MAX_RETRIES >= 1
     /\ cur # <<>>
     /\ cur[1].images # <<>>
     /\ ConnFailure(cur[1].out))
    => /\ Len(cur) >= 2
       /\ cur[1].wait = 0
       /\ cur[2].images = <<>>

\* C4: within one candidate the switch to text-only happens at most once and
\* only after a failure of attempt 1; after it every later attempt is sent
\* text-only, and an image-related failure on attempt 2 or later never
\* triggers the switch.
C4_SwitchOnceAfterFirst ==
    /\ \A i \in 1..(Len(cur) - 1) :
          /\ (cur[i].images = <<>> => cur[i + 1].images = <<>>)
          /\ (cur[i].images # <<>> /\ cur[i + 1].images = <<>> => i = 1)
    /\ (cand = DefaultId /\ retry_without_images) =>
          /\ cur # <<>>
          /\ cur[1].images # <<>>
          /\ ConnFailure(cur[1].out)
          /\ \A j \in 2..Len(cur) : cur[j].images = <<>>

\* the switch happened after attempt 1, attempt 2 failed on connectivity
\* again and attempt 3 was still sent text-only
C4_Witness ==
    /\ cand = DefaultId
    /\ Len(cur) >= 3
    /\ cur[1].images # <<>>
    /\ cur[2].images = <<>>
    /\ ConnFailure(cur[2].out)
    /\ cur[3].images = <<>>

\* C5: if every image URL of the question fails to materialize, the request
\* is sent text-only from the first attempt on and no failure of that
\* candidate is treated as image-related: the image-disable retry is never
\* entered and each failure that is followed by another attempt gets the
\* generic backoff wait.
C5_AllImagesFailed ==
    (cand # None /\ image_urls # <<>> /\ dl_ok = {}) =>
        /\ \A j \in 1..Len(cur) : cur[j].images = <<>>
        /\ (cand = DefaultId =>
              /\ ~retry_without_images
              /\ base64_images = <<>>
              /\ \A j \in 1..(Len(cur) - 1) : cur[j].wait = Min(2 ^ j, 10))

\* the multimodal default client fetched none of the images, its first
\* attempt failed on connectivity and a second attempt was made
C5_Witness ==
    /\ cand = DefaultId
    /\ selected_provider = "doubao"
    /\ image_urls # <<>>
    /\ dl_ok = {}
    /\ Len(cur) >= 2
    /\ ConnFailure(cur[1].out)

\* C6: an image that fails to materialize never fails or aborts the
\* resolution: whatever subset of the URLs fails, the provider is still
\* invoked and the image payload of the request is exactly the materialized
\* images, in their original order.
C6_PayloadIsMaterialized ==
    /\ cand # None => (cur # <<>> \/ pc = "attempt")
    /\ cur # <<>> =>
          LET p == cur[1].images
          IN  /\ \A k \in 1..Len(p) : p[k][1] = "data" /\ p[k][2] \in dl_ok
              /\ \A u \in dl_ok : \E k \in 1..Len(p) : p[k][2] = u
              /\ \A k, l \in 1..Len(p) : k < l => UrlIndex(p[k][2]) < UrlIndex(p[l][2])

\* some but not all images failed to materialize and the provider answered
C6_Witness ==
    /\ cur # <<>>
    /\ dl_ok # {}
    /\ dl_ok # Range(image_urls)
    /\ Len(cur[1].images) = Cardinality(dl_ok)
    /\ response.success

\* C7: candidates are attempted strictly in priority-list order, each only
\* after every earlier eligible candidate failed; the first candidate that
\* returns a non-empty answer ends the loop, and an empty model answer counts
\* as that candidate's failure.
C7_PriorityOrder ==
    LET ok(m) == /\ models[m].present
                 /\ models[m].enabled
                 /\ (image_urls # <<>> => models[m].is_multimodal)
        listed == SelectSeq(type_models, ok)
    IN  /\ IsPrefix(ListedTried, listed)
        /\ (cand = DefaultId => ListedTried = listed)
        /\ (cand \in ModelIds => Last(ListedTried) = cand)
        /\ \A i \in 1..Len(tried) :
              /\ (tried[i].answered =>
                    /\ i = Len(tried)
                    /\ pc = "done"
                    /\ response.success
                    /\ response.provider = tried[i].id)
              /\ (~tried[i].answered /\ tried[i].id # DefaultId /\ i = Len(tried) =>
                    pc # "done")
        /\ (Finished /\ cur # <<>> /\ ~Last(cur).out.raised /\ Last(cur).out.content = "" =>
              ~Last(tried).answered /\ ~response.success)

\* the first listed candidate failed and the second one answered
C7_Witness ==
    /\ Len(type_models) = 2
    /\ Len(tried) = 2
    /\ tried[2].id = type_models[2]
    /\ tried[2].answered
    /\ pc = "done"

\* the two outcomes of a resolution: a success carries the non-empty answer
\* of the one provider that answered, the last one tried; a failure comes
\* only after the default client, tried last, has failed like all before it
DefiniteOutcome ==
    \/ /\ response.success
       /\ raw_answer = "A"
       /\ tried # <<>>
       /\ Last(tried).answered
       /\ response.provider = Last(tried).id
       /\ \A i \in 1..(Len(tried) - 1) : ~tried[i].answered
    \/ /\ ~response.success
       /\ response.error = "no_answer"
       /\ tried # <<>>
       /\ Last(tried).id = DefaultId
       /\ \A i \in 1..Len(tried) : ~tried[i].answered

C9_ProviderAttempted ==
    (/\ pc = "done"
     /\ \E i \in 1..Len(type_models) :
           LET m == models[type_models[i]]
           IN  m.present /\ m.enabled /\ m.is_multimodal)
    => tried # <<>>

\* C10 (as claimed): for a question with images the candidates are the
\* enabled multimodal providers in the order of the priority list of the
\* synthetic "image" type, not of the question's own type; another provider
\* is used only if that list yields no candidate.
C10_ImageListOrder ==
    LET image_candidates ==
            SelectSeq(image_models,
                      LAMBDA m : /\ models[m].present
                                 /\ models[m].enabled
                                 /\ models[m].is_multimodal)
    IN  (image_urls # <<>> /\ image_candidates # <<>>) =>
            IsPrefix(ListedTried, image_candidates)

\* C11: a provider whose enabled flag is false in the registry is never
\* invoked by a resolution, whatever its position in the priority list and
\* whether or not the question has images.
C11_DisabledNeverInvoked ==
    /\ cand \in ModelIds => models[cand].present /\ models[cand].enabled
    /\ \A i \in 1..Len(tried) :
          tried[i].id \in ModelIds =>
              models[tried[i].id].present /\ models[tried[i].id].enabled

\* the first provider of the list is registered, multimodal and disabled;
\* the question has images and the loop went past it to invoke the second
C11_Witness ==
    /\ Len(type_models) = 2
    /\ models[type_models[1]].present
    /\ ~models[type_models[1]].enabled
    /\ image_urls # <<>>
    /\ tried # <<>>
    /\ tried[1].id = type_models[2]

\* C12: the default client, the provider outside the priority list, is
\* invoked only as a last resort: when it is invoked every eligible listed
\* candidate has been invoked before it and has failed, and nothing is
\* invoked after it.
C12_DefaultLastResort ==
    /\ cand = DefaultId =>
          \A i \in 1..Len(type_models) :
              eligible(type_models[i], image_urls) =>
                  \E j \in 1..Len(tried) :
                      /\ tried[j].id = type_models[i]
                      /\ ~tried[j].answered
    /\ \A j \in 1..Len(tried) : tried[j].id = DefaultId => j = Len(tried)
    /\ cand \in ModelIds => \A j \in 1..Len(tried) : tried[j].id # DefaultId

\* of two listed providers the first was skipped as ineligible, the second
\* was invoked and failed, and only then the default client was invoked
C12_Witness ==
    /\ cand = DefaultId
    /\ pc = "attempt"
    /\ Len(type_models) = 2
    /\ ~eligible(type_models[1], image_urls)
    /\ Len(tried) = 1
    /\ tried[1].id = type_models[2]

\* C13: the reasoning flag passed to the executor is true if and only if the
\* type's configuration enables reasoning, or the type is multiple and
\* auto-reasoning-for-multiple is set, or the question has images and
\* auto-reasoning-for-images is set.
C13_ReasoningFlag ==
    LET policy == \/ type_reasoning
                  \/ (q_type = "multiple" /\ model_client.auto_reasoning_for_multiple)
                  \/ (image_urls # <<>> /\ model_client.auto_reasoning_for_images)
    IN  (pc # "start" /\ model_client # NoClient) =>
            /\ force_reasoning <=> policy
            /\ \A i \in 1..Len(cur) : cur[i].flag <=> policy

\* a single-choice question whose images alone turn the flag on, and a
\* provider called with it
C13_Witness ==
    /\ cur # <<>>
    /\ cur[1].flag
    /\ q_type = "single"
    /\ ~type_reasoning
    /\ image_urls # <<>>
    /\ model_client.auto_reasoning_for_images

\* C14: the reasoning_used value reported to the caller is true whenever
\* policy forced the reasoning flag, whatever the execution path: images
\* dropped and the call made text-only, or a provider that ignores the flag.
C14_ReasoningReported ==
    (pc = "done" /\ response.success /\ force_reasoning) => response.reasoning_used

\* the flag was forced, the answer came from a custom model that does not
\* support reasoning, called text-only because no image was fetched
C14_Witness ==
    /\ pc = "done"
    /\ response.success
    /\ response.reasoning_used
    /\ cand \in ModelIds
    /\ ~models[cand].supports_reasoning
    /\ image_urls # <<>>
    /\ Last(cur).images = <<>>
    /\ ~Last(cur).request.reasoning

\* C15 (as claimed): for a provider that does not support reasoning the
\* request is the same whether the flag is true or false, and the reasoning
\* parameter is added only when the flag is true and the provider supports
\* reasoning.
C15_ParameterOnlyWithFlag ==
    \A i \in 1..Len(cur) :
        LET r == cur[i].request
        IN  /\ ~SupportsReasoning(cand) =>
                  r = [model |-> cand, max_tokens |-> models[cand].max_tokens,
                       reasoning |-> FALSE]
            /\ r.reasoning => (cur[i].flag /\ SupportsReasoning(cand))

\* C15 (amended): for a custom model that does not support reasoning the
\* request is the same whether the flag is true or false; the reasoning
\* parameter is added only for a provider that supports reasoning, and only
\* when the flag is true or, on the default client, when the global
\* reasoning switch of the environment is on.
C15_FlagAdvisory ==
    \A i \in 1..Len(cur) :
        LET r == cur[i].request
        IN  /\ ~SupportsReasoning(cand) =>
                  r = [model |-> cand, max_tokens |-> models[cand].max_tokens,
                       reasoning |-> FALSE]
            /\ r.reasoning =>
                  IF cand \in ModelIds
                  THEN cur[i].flag /\ models[cand].supports_reasoning
                  ELSE /\ selected_provider = "doubao"
                       /\ (cur[i].flag \/ model_client.enable_reasoning)

\* a custom model without reasoning support was called with the flag on and
\* its request carries no reasoning parameter
C15_Witness ==
    /\ cand \in ModelIds
    /\ cur # <<>>
    /\ cur[1].flag
    /\ ~models[cand].supports_reasoning
    /\ ~cur[1].request.reasoning

\* C16 (as claimed): the output-token ceiling sent is the ordinary ceiling,
\* clamped into [1, 8192], except when the flag is active and the provider
\* supports reasoning, where it is the reasoning ceiling, clamped into
\* [1, 65536]; for every provider, listed or default.
C16_CeilingClamped ==
    \A i \in 1..Len(cur) :
        LET r == cur[i].request
            ordinary == IF cand \in ModelIds
                        THEN ClampTokens(models[cand].max_tokens, 8192)
                        ELSE MAX_TOKENS
        IN  IF cur[i].flag /\ SupportsReasoning(cand)
            THEN /\ r.max_tokens \in 1..65536
                 /\ cand = DefaultId => r.max_tokens = REASONING_MAX_TOKENS
            ELSE /\ r.max_tokens \in 1..8192
                 /\ r.max_tokens = ordinary

\* C17 (as claimed): for a single or judgement question, if the raw text
\* equals one of the options ignoring case and surrounding whitespace, the
\* result is exactly that option, the one it equals.
C17_EqualOptionReturned ==
    (pc = "processed" /\ q_type \in {"single", "judgement"}) =>
        ((\E i \in 1..Len(options) : EqualsIgnoringCase(raw_answer, options[i])) =>
            \E j \in 1..Len(options) :
                /\ EqualsIgnoringCase(raw_answer, options[j])
                /\ processed_answer = options[j])

\* C18 (as claimed): for a multiple-choice answer whose fragments each
\* exactly equal a distinct option, the result is exactly those options
\* joined by '#', one per fragment, in the order of the fragments.
C18_FragmentsJoined ==
    (pc = "processed" /\ q_type = "multiple" /\ options # <<>>) =>
        LET frags == split(raw_answer)
        IN  (/\ \A i \in 1..Len(frags) : frags[i] \in Range(options)
             /\ \A i, j \in 1..Len(frags) : i # j => frags[i] # frags[j])
            => processed_answer = join(frags)

\* C19 (as claimed): a multiple-choice result that lists options lists them
\* in the order of the caller's option list, whatever the order of the
\* fragments in the raw text.
C19_OptionListOrder ==
    (/\ pc = "processed"
     /\ q_type = "multiple"
     /\ \E s \in OptionSeqs : JoinOf(s) = processed_answer)
    => \E s \in OptionSeqs :
           /\ JoinOf(s) = processed_answer
           /\ \A k, l \in 1..Len(s) : k < l => s[k] < s[l]

\* C19 (amended): when a fragment of the raw text matches an option, the
\* multiple-choice result lists options in the order of the fragments: each
\* listed option is matched by a fragment (as it stands or cleaned), and
\* these fragments appear in the raw text in the order of the list.
C19_FragmentOrder ==
    (pc = "processed" /\ q_type = "multiple" /\ options # <<>>) =>
        LET frags == split(strip(raw_answer))
            matches(i, o) == \/ match_option(frags[i], o)
                             \/ match_option(clean_answer(frags[i]), o)
        IN  (\E i \in 1..Len(frags), j \in 1..Len(options) : matches(i, options[j]))
            => \E s \in OptionSeqs :
                   /\ JoinOf(s) = processed_answer
                   /\ \E f \in [1..Len(s) -> 1..Len(frags)] :
                          /\ \A k, l \in 1..Len(s) : k < l => f[k] < f[l]
                          /\ \A k \in 1..Len(s) : matches(f[k], options[s[k]])

\* the raw text names the second option before the first and the result
\* keeps that order
C19_Witness ==
    /\ pc = "processed"
    /\ q_type = "multiple"
    /\ Len(options) = 2
    /\ options[1] # options[2]
    /\ raw_answer = options[2] \o <<"#">> \o options[1]
    /\ processed_answer = raw_answer

\* C20 (as claimed): with a non-empty option list, when the raw or the
\* cleaned text matches at least one option, the result for single and
\* judgement is one option of the list and for multiple a '#'-join of
\* distinct options of the list, never a text that is not an option.
C20_OptionWhenMatched ==
    (/\ pc = "processed"
     /\ q_type \in {"single", "multiple", "judgement"}
     /\ \E i \in 1..Len(options) :
           \/ match_option(raw_answer, options[i])
           \/ match_option(clean_answer(strip(raw_answer)), options[i]))
    => IF q_type = "multiple"
       THEN \E s \in OptionSeqs : JoinOf(s) = processed_answer
       ELSE processed_answer \in Range(options)

\* C21: process_answer is total: for every raw text, every type (single,
\* multiple, judgement, completion, unrecognized) and every option list,
\* the empty list and lists of one option included, it returns a string and
\* raises no error.
C21_Total ==
    pc = "processed" =>
        /\ DOMAIN processed_answer = 1..Len(processed_answer)
        /\ \A i \in 1..Len(processed_answer) : processed_answer[i] \in AllChars

\* a judgement answer of negative polarity with a single option that holds
\* no marker word: there is no second option and the cleaned text is returned
C21_Witness ==
    /\ pc = "processed"
    /\ q_type = "judgement"
    /\ options = << <<"T">> >>
    /\ raw_answer = <<"u9519">>
    /\ processed_answer = raw_answer

\* C22 (as claimed): when no option matches (no fragment either for a
\* multiple-choice answer, and no single polarity for a judgement), the
\* result is the cleaned text, or the raw text when cleaning yields the empty
\* string, for every type and every option list including the empty one, so
\* the result is non-empty whenever the trimmed raw text is.
C22_CleanedOrRaw ==
    pc = "processed" =>
        LET raw == strip(raw_answer)
            cleaned == clean_answer(raw)
            frags == split(raw)
            unmatched(text) == first_match(text, options) = 0
            no_match ==
                /\ unmatched(raw)
                /\ unmatched(cleaned)
                /\ (q_type = "multiple" =>
                      \A k \in 1..Len(frags) :
                          unmatched(frags[k]) /\ unmatched(clean_answer(frags[k])))
                /\ (q_type = "judgement" =>
                      (HasWord(cleaned, positive_words)
                          <=> HasWord(cleaned, negative_words)))
        IN  no_match =>
                /\ processed_answer = (IF cleaned # <<>> THEN cleaned ELSE raw)
                /\ (raw # <<>> => processed_answer # <<>>)

\* C23 (as claimed): _clean_answer removes only a leading label and the
\* markup around the answer and never alters interior content: the result
\* for a completion (or unrecognized) type is the raw text with a prefix and
\* a suffix removed.
C23_InteriorPreserved ==
    (pc = "processed" /\ q_type \in {"completion", "other"}) =>
        IsInfix(processed_answer, raw_answer)

\* C29 (as claimed): for a judgement answer that matches no option, a single
\* positive polarity gives the first option holding a positive marker word,
\* else the first option; a single negative polarity gives the first option
\* holding a negative marker word, else the second option; both or neither
\* polarity gives the cleaned text.  The option returned for one polarity
\* never carries the opposite one: for a positive answer it holds no negative
\* marker word, for a negative answer it does not hold a positive marker
\* word alone.  (A list of one option has no second option; nothing is
\* asked of that case.)
C29_JudgementPolarity ==
    (/\ pc = "processed"
     /\ q_type = "judgement"
     /\ options # <<>>
     /\ first_match(strip(raw_answer), options) = 0
     /\ first_match(clean_answer(strip(raw_answer)), options) = 0)
    => LET cleaned == clean_answer(strip(raw_answer))
           positive == HasWord(cleaned, positive_words)
           negative == HasWord(cleaned, negative_words)
           p == first_with_word(options, positive_words)
           n == first_with_word(options, negative_words)
       IN  IF positive /\ ~negative
           THEN /\ processed_answer = (IF p # 0 THEN options[p] ELSE options[1])
                /\ ~HasWord(processed_answer, negative_words)
           ELSE IF negative /\ ~positive
           THEN \/ n = 0 /\ Len(options) = 1
                \/ /\ processed_answer = (IF n # 0 THEN options[n] ELSE options[2])
                   /\ \/ ~HasWord(processed_answer, positive_words)
                      \/ HasWord(processed_answer, negative_words)
           ELSE processed_answer = (IF cleaned # <<>> THEN cleaned ELSE strip(raw_answer))

\* C26 (as claimed): the number of invocations made for one candidate never
\* exceeds the attempt bound, the image-disabled retry included, and when
\* every attempt fails with a generic transient error exactly that many
\* invocations are made before the candidate is given up; for every
\* candidate, listed or default.
C26_AttemptBound ==
    /\ Len(cur) <= MAX_RETRIES
    /\ (Finished /\ \A i \in 1..Len(cur) : GenericFailure(cur[i].out)) =>
          Len(cur) = MAX_RETRIES

\* C27: the wait after a generic transient failure of attempt k that is
\* followed by another attempt is min(2^k, 10) seconds, and there is no other
\* wait: none after the last attempt, none after a fatal failure, none
\* before the image-disabled retry.
C27_BackoffWait ==
    \A k \in 1..Len(cur) :
        LET followed == k < Len(cur) \/ (pc = "attempt" /\ attempt = k + 1)
            switched == /\ k = 1
                        /\ ConnFailure(cur[k].out)
                        /\ cur[k].images # <<>>
            waits == /\ cand = DefaultId
                     /\ cur[k].out.raised
                     /\ ~Fatal(cur[k].out)
                     /\ ~switched
                     /\ followed
        IN  cur[k].wait = (IF waits THEN Min(2 ^ k, 10) ELSE 0)

\* five attempts: the image-disabled retry came without a wait, the waits
\* after attempts 2 and 3 were 4 and 8 seconds, the wait after attempt 4 was
\* capped at 10 seconds and the last attempt, a fatal failure, had none
C27_Witness ==
    /\ cand = DefaultId
    /\ Len(cur) = 5
    /\ cur[1].images # <<>> /\ cur[2].images = <<>>
    /\ cur[1].wait = 0
    /\ cur[2].wait = 4
    /\ cur[3].wait = 8
    /\ cur[4].wait = 10
    /\ Fatal(cur[5].out)
    /\ cur[5].wait = 0

\* C28: in ModelClient.chat every failure is taken for exactly one of fatal,
\* image-related and generic, in this precedence: a failure showing a fatal
\* indicator is fatal whatever else it shows; a failure is image-related
\* only if it shows a connectivity indicator and the request held inline
\* image data; every other failure is generic.  Each class is handled as
\* such: fatal ends the call, image-related is followed by a text-only
\* attempt without a wait, generic by a wait when another attempt follows.
C28_Classification ==
    cand = DefaultId =>
        \A k \in 1..Len(cur) :
            LET e == cur[k]
            IN  /\ e.class = "ok" <=> ~e.out.raised
                /\ e.class = "fatal" <=> (e.out.raised /\ e.out.param)
                /\ e.class = "image" =>
                      /\ ConnFailure(e.out)
                      /\ e.images # <<>>
                      /\ e.wait = 0
                      /\ (k < Len(cur) => cur[k + 1].images = <<>>)
                /\ e.class = "generic" <=>
                      (e.out.raised /\ ~e.out.param /\ e.class # "image")
                /\ e.class = "fatal" => (k = Len(cur) /\ e.wait = 0 /\ pc = "done")
                /\ (e.class = "generic" /\ k < Len(cur)) => e.wait > 0

\* a first attempt with images failed without a connectivity indicator, the
\* second, still with images, failed on connectivity and was taken for
\* generic, and the third showed both a fatal and a connectivity indicator
\* and was taken for fatal
C28_Witness ==
    /\ cand = DefaultId
    /\ Len(cur) = 3
    /\ cur[1].images # <<>> /\ cur[1].class = "generic"
    /\ cur[2].images # <<>> /\ ConnFailure(cur[2].out) /\ cur[2].class = "generic"
    /\ cur[3].images # <<>> /\ cur[3].out.param /\ cur[3].out.conn
    /\ cur[3].class = "fatal"

\* C30 (as claimed): ModelClient.chat never returns from the statements
\* after its retry loop: for every attempt bound and every sequence of
\* attempt outcomes it returns from inside the loop.
C30_TailUnreachable ==
    \A i \in 1..Len(tried) : tried[i].id = DefaultId => tried[i].site = "loop"

\* C24: an error of the audit append (while checking, repairing or writing
\* the log) never fails the resolution: the response is the success response
\* with the processed answer, the same as when the append succeeds.
C24_AppendFailureHarmless ==
    \A w \in Workers :
        (w_pc[w] = "done" /\ w_raw[w] # <<>>) =>
            responses[w] = [success |-> TRUE, error |-> None,
                            answer |-> process_answer(w_raw[w], q_type, options)]

\* a thread whose write of the row failed and that answered all the same
C24_Witness ==
    \E w \in Workers :
        /\ w_pc[w] = "done"
        /\ failed[w]
        /\ w \notin appended
        /\ responses[w].success
        /\ responses[w].answer = <<"a">>

\* C25 (as claimed): appends to the log are serialized: under any
\* interleaving of concurrent resolutions and of a repair or a clear, the
\* row of each resolution that wrote one is in the log exactly once, the
\* header is the first row and occurs once, and no row written by one
\* resolution is lost or overwritten by another.
C25_AppendsSerialized ==
    LET log == csv_file.rows
    IN  /\ \A w \in appended :
              Cardinality({i \in 1..Len(log) : log[i].by = w}) = 1
        /\ log # <<>> =>
              /\ log[1].by = "header"
              /\ \A i \in 2..Len(log) : log[i].by # "header"


\* C34 (as claimed): for every invocation made through the default client, in
\* fixed and in auto mode and for every combination of the global reasoning
\* setting and the forced flag, the max_tokens sent is within the limit of
\* the model actually invoked: at most 8192 for the ordinary chat model and
\* at most 65536 for the reasoner.
C34_WithinModelLimit ==
    cand = DefaultId =>
        \A i \in 1..Len(cur) :
            LET r == cur[i].request
            IN  /\ r.model = DEEPSEEK_MODEL => r.max_tokens <= 8192
                /\ r.model = "deepseek-reasoner" => r.max_tokens <= 65536

\* C35 (as claimed): the model name and the provider reported in a success
\* response are those of the invocation that produced the answer, for every
\* mode and reasoning flag (here for an answer of the default client).
C35_ReportedInvocation ==
    (pc = "done" /\ response.success /\ custom_model_id = None) =>
        /\ response.model = Last(cur).request.model
        /\ response.ocs_format.model = Last(cur).request.model
        /\ response.response_provider.name = selected_provider

\* C36 (as claimed): the two reasoning_used values of one success response,
\* the top-level one and the one inside ocs_format, are always equal.
C36_ReasoningUsedAgree ==
    (pc = "done" /\ response.success) =>
        response.reasoning_used = response.ocs_format.reasoning_used


\* C39 (as claimed): _clean_answer is idempotent: cleaning a text that has
\* been cleaned once gives that text again.
C39_CleanIdempotent ==
    pc = "processed" =>
        clean_answer(clean_answer(raw_answer)) = clean_answer(raw_answer)


\* ------------------------------------------------------------ the registry
\* CustomModelManager: add_model, update_model, delete_model and
\* set_question_type_models, each with the outcome of its _save_config

MaxStamp == 1           \* datetime.now() values the registry calls can see

\* the pipeline variables while no question is being answered
NoRequest(position) ==
    /\ pc = position
    /\ q_type = None
    /\ image_urls = <<>>
    /\ force_reasoning = FALSE
    /\ options = <<>>
    /\ processed_answer = <<>>
    /\ idx = 1
    /\ raw_answer = None
    /\ custom_model_id = None
    /\ response = NoResponse
    /\ selected_provider = None
    /\ base64_images = <<>>
    /\ use_images = FALSE
    /\ attempt = 0
    /\ retry_without_images = FALSE
    /\ dl_ok = {}
    /\ cand = None
    /\ cur = <<>>
    /\ tried = <<>>
    /\ AuditRest

\* a model_config an administrator sends: with all required fields or not,
\* with a name, an is_system flag and a creation time of its own
AdminConfigs ==
    {[complete |-> TRUE, name |-> "v1", is_system |-> FALSE, created_at |-> 9],
     [complete |-> TRUE, name |-> "v2", is_system |-> TRUE, created_at |-> 9],
     [complete |-> FALSE, name |-> "v1", is_system |-> FALSE, created_at |-> 9]}

\* the question_type values of a call of set_question_type_models
AdminTypes == RegTypes \cup {"essay"}

\* the enable_reasoning values of a call: None or True
AdminReasoning == {<<>>, <<TRUE>>}

\* a registry in which every listed id is registered, as a configuration file
\* written by this or by an older version holds it
RegistryModels ==
    {NoModel, DefaultModel, [DefaultModel EXCEPT !.is_system = TRUE]}

\* the return values of the registry calls
Success == [ok |-> TRUE, message |-> "ok"]
Failure(message) == [ok |-> FALSE, message |-> message]

\* what a call returns after _save_config
Saved(saved) == IF saved THEN Success ELSE Failure("save_failed")

\* the entry add_model stores: the defaults, created_at and updated_at
new_model(model_config) ==
    [DefaultModel EXCEPT !.name = model_config.name,
                         !.is_system = model_config.is_system,
                         !.created_at = clock, !.updated_at = clock]

\* variant: the entry takes the system flag the caller sent
updated_as_sent(old, model_config) ==
    [old EXCEPT !.name = model_config.name, !.updated_at = clock,
                !.is_system = model_config.is_system]

\* self.models[model_id].update(model_config) of update_model, after
\* created_at and is_system of model_config were set to the stored values
updated(old, model_config) ==
    LET kept == [model_config EXCEPT !.created_at = old.created_at,
                                     !.is_system = old.is_system]
    IN  [old EXCEPT !.name = kept.name, !.updated_at = clock,
                    !.created_at = kept.created_at,
                    !.is_system = kept.is_system]

\* model_id in self.question_type_models[q_type]: the keys of a dict entry,
\* the ids of an entry in the old list format
in_entry(model_id, format, ids) ==
    IF format = "dict" THEN model_id \in {"models", "enable_reasoning"}
    ELSE model_id \in Range(ids)

\* list.remove(x): the list without the first occurrence of x
remove(ids, x) ==
    LET i == CHOOSE j \in 1..Len(ids) :
                 ids[j] = x /\ \A k \in 1..(j - 1) : ids[k] # x
    IN  SubSeq(ids, 1, i - 1) \o SubSeq(ids, i + 1, Len(ids))

\* what the loop of delete_model leaves of one type's list (no registered id
\* is a key of a dict entry, so the remove of a dict never runs here)
unlisted(model_id, format, ids) ==
    IF in_entry(model_id, format, ids) /\ format = "list"
    THEN remove(ids, model_id)
    ELSE ids

RegistryInit ==
    /\ models \in [ModelIds -> RegistryModels]
    /\ type_models \in PriorityLists
    /\ image_models \in ImageLists
    /\ \A m \in Range(type_models) \cup Range(image_models) : models[m].present
    /\ model_client = NewModelClient("deepseek", TRUE, FALSE, DefaultEnv)
    /\ MAX_RETRIES = 1
    /\ type_reasoning = FALSE
    /\ MAX_TOKENS = ClampTokens(500, 8192)
    /\ REASONING_MAX_TOKENS = ClampTokens(4096, 65536)
    /\ NoRequest("admin")
    /\ clock = 0
    /\ result = NoResult
    /\ \E f \in {"dict", "list"} : list_format = [t \in RegTypes |-> f]
    /\ RATE_LIMIT_ATTEMPTS = 5
    /\ RATE_LIMIT_WINDOW = 300
    /\ failed_attempts = [ip \in Ips |-> <<>>]
    /\ reqs = [w \in Workers |-> Idle]

\* CustomModelManager.add_model
add_model(model_id, model_config, saved) ==
    /\ pc = "admin"
    /\ IF ~model_config.complete
       THEN result' = Failure("missing_field") /\ UNCHANGED models
       ELSE IF models[model_id].present
       THEN result' = Failure("exists") /\ UNCHANGED models
       ELSE IF saved
       THEN /\ models' = [models EXCEPT ![model_id] = new_model(model_config)]
            /\ result' = Success
       ELSE result' = Failure("save_failed") /\ UNCHANGED models
    /\ UNCHANGED <<clock, list_format, securityv, auditv, type_models, image_models,
                   model_client, MAX_RETRIES, type_reasoning, MAX_TOKENS,
                   REASONING_MAX_TOKENS, pc, request, answerv, idx, raw_answer,
                   custom_model_id, response, chatv, dl_ok, cand, cur, tried>>

\* CustomModelManager.update_model
update_model(model_id, model_config, saved) ==
    /\ pc = "admin"
    /\ IF ~models[model_id].present
       THEN result' = Failure("not_found") /\ UNCHANGED models
       ELSE IF models[model_id].is_system
       THEN result' = Failure("system") /\ UNCHANGED models
       ELSE /\ models' = [models EXCEPT ![model_id] = updated(@, model_config)]
            /\ result' = Saved(saved)
    /\ UNCHANGED <<clock, list_format, securityv, auditv, type_models, image_models,
                   model_client, MAX_RETRIES, type_reasoning, MAX_TOKENS,
                   REASONING_MAX_TOKENS, pc, request, answerv, idx, raw_answer,
                   custom_model_id, response, chatv, dl_ok, cand, cur, tried>>

\* CustomModelManager.delete_model
delete_model(model_id, saved) ==
    /\ pc = "admin"
    /\ IF ~models[model_id].present
       THEN /\ result' = Failure("not_found")
            /\ UNCHANGED <<models, type_models, image_models>>
       ELSE IF models[model_id].is_system
       THEN /\ result' = Failure("system")
            /\ UNCHANGED <<models, type_models, image_models>>
       ELSE /\ type_models' = unlisted(model_id, list_format["single"], type_models)
            /\ image_models' = unlisted(model_id, list_format["image"], image_models)
            /\ models' = [models EXCEPT ![model_id] = NoModel]
            /\ result' = Saved(saved)
    /\ UNCHANGED <<clock, list_format, securityv, auditv,
                   model_client, MAX_RETRIES, type_reasoning, MAX_TOKENS,
                   REASONING_MAX_TOKENS, pc, request, answerv, idx, raw_answer,
                   custom_model_id, response, chatv, dl_ok, cand, cur, tried>>

\* CustomModelManager.set_question_type_models
set_question_type_models(question_type, model_ids, enable_reasoning, saved) ==
    /\ pc = "admin"
    /\ IF question_type \notin RegTypes
       THEN /\ result' = Failure("invalid_type")
            /\ UNCHANGED <<type_models, image_models, type_reasoning, list_format>>
       ELSE IF \E i \in 1..Len(model_ids) : ~models[model_ids[i]].present
       THEN /\ result' = Failure("unknown_model")
            /\ UNCHANGED <<type_models, image_models, type_reasoning, list_format>>
       ELSE /\ IF question_type = "single"
               THEN /\ type_models' = model_ids
                    /\ type_reasoning' =
                           IF enable_reasoning # <<>> THEN enable_reasoning[1]
                           ELSE IF list_format["single"] = "dict" THEN type_reasoning
                           ELSE FALSE
                    /\ UNCHANGED image_models
               ELSE /\ image_models' = model_ids
                    /\ UNCHANGED <<type_models, type_reasoning>>
            /\ list_format' = [list_format EXCEPT ![question_type] = "dict"]
            /\ result' = Saved(saved)
    /\ UNCHANGED <<clock, securityv, auditv, models,
                   model_client, MAX_RETRIES, MAX_TOKENS,
                   REASONING_MAX_TOKENS, pc, request, answerv, idx, raw_answer,
                   custom_model_id, response, chatv, dl_ok, cand, cur, tried>>

\* time passes between two calls of the registry
Elapse ==
    /\ pc = "admin"
    /\ clock < MaxStamp
    /\ clock' = clock + 1
    /\ UNCHANGED <<registryv, securityv, auditv, config, pc, request, answerv, idx,
                   raw_answer, custom_model_id, response, chatv, dl_ok, cand,
                   cur, tried>>

RegistryNext ==
    \/ \E m \in ModelIds, c \in AdminConfigs, saved \in BOOLEAN :
          add_model(m, c, saved)
    \/ \E m \in ModelIds, c \in AdminConfigs, saved \in BOOLEAN :
          update_model(m, c, saved)
    \/ \E m \in ModelIds, saved \in BOOLEAN : delete_model(m, saved)
    \/ \E t \in AdminTypes, r \in AdminReasoning, saved \in BOOLEAN :
          \E ids \in (IF t = "single" THEN PriorityLists ELSE ImageLists) :
              set_question_type_models(t, ids, r, saved)
    \/ Elapse

RegistrySpec == RegistryInit /\ [][RegistryNext]_vars

\* every id a priority list names is registered
Registered(ids) == \A m \in Range(ids) : models[m].present

\* C31 (as claimed): after any sequence of add_model, update_model,
\* delete_model and set_question_type_models, every id in every type's
\* priority list exists in the registry (here after a call that reported
\* success).
C31_ListedIdsRegistered ==
    (pc = "admin" /\ result.ok) =>
        Registered(type_models) /\ Registered(image_models)

\* C32 (as claimed): every mutation of the registry that reports failure,
\* for a failed validation or for a failed save, leaves the in-memory
\* models and priority lists exactly as they were before the call.
C32_FailureChangesNothing ==
    [][(pc = "admin" /\ ~result'.ok) =>
          UNCHANGED <<models, type_models, image_models>>]_vars

\* C33 (as claimed): a system model is never changed or removed through the
\* admin operations: update_model and delete_model on a system model return
\* failure and leave it unchanged, and update_model never changes the
\* is_system flag or the creation time of any model.
C33_SystemModelsKept ==
    [][pc = "admin" =>
          \A m \in ModelIds :
              LET called_update == \E c \in AdminConfigs, saved \in BOOLEAN :
                                       update_model(m, c, saved)
                  called_delete == \E saved \in BOOLEAN : delete_model(m, saved)
              IN  /\ (models[m].present /\ models[m].is_system) =>
                        /\ models'[m] = models[m]
                        /\ result'.ok => ~(called_update \/ called_delete)
                  /\ (models[m].present /\ models'[m].present) =>
                        /\ models'[m].is_system = models[m].is_system
                        /\ models'[m].created_at = models[m].created_at]_vars

\* a custom model was updated with a configuration that asked for the system
\* flag and another creation time, beside an untouched system model
C33_Witness ==
    /\ pc = "admin"
    /\ \E m \in ModelIds :
          /\ models[m].present /\ ~models[m].is_system
          /\ models[m].name = "v2"
          /\ models[m].updated_at > models[m].created_at
    /\ \E m \in ModelIds : models[m].present /\ models[m].is_system
    /\ result = Failure("system")


\* ------------------------------------------------------- the authentication
\* SecurityManager.check_rate_limit and the require_auth decorator, run by
\* the request threads of the server

MaxClock == 3           \* time.time() values a run can see
MaxLimit == 2           \* RATE_LIMIT_ATTEMPTS
MaxWindow == 2          \* RATE_LIMIT_WINDOW

\* the X-API-Key of a request: the key, another one, or none
Keys == {"good", "bad", "none"}

\* the list comprehension of check_rate_limit: the records younger than the
\* window
recent(attempts, now) ==
    SelectSeq(attempts, LAMBDA ts : now - ts < RATE_LIMIT_WINDOW)

\* variant: the limit itself is still allowed
rate_limited_above(attempts) == Len(attempts) > RATE_LIMIT_ATTEMPTS

\* len(self.failed_attempts[ip]) >= self.rate_limit_attempts
rate_limited(attempts) == Len(attempts) >= RATE_LIMIT_ATTEMPTS

\* SecurityManager.verify_key
verify_key(api_key) == api_key = "good"

\* the IP has at least RATE_LIMIT_ATTEMPTS failures within the window
LockedOut(ip) ==
    Len(recent(failed_attempts[ip], clock)) >= RATE_LIMIT_ATTEMPTS

\* the IP holds enough failure records for a lockout and the window has
\* elapsed from the oldest of them
WindowElapsed(ip) ==
    /\ Len(failed_attempts[ip]) >= RATE_LIMIT_ATTEMPTS
    /\ failed_attempts[ip] # <<>>
    /\ clock - SetMin(Range(failed_attempts[ip])) >= RATE_LIMIT_WINDOW

AuthInit ==
    /\ models = [m \in ModelIds |-> NoModel]
    /\ type_models = <<>>
    /\ image_models = <<>>
    /\ model_client = NewModelClient("deepseek", TRUE, FALSE, DefaultEnv)
    /\ MAX_RETRIES = 1
    /\ type_reasoning = FALSE
    /\ MAX_TOKENS = ClampTokens(500, 8192)
    /\ REASONING_MAX_TOKENS = ClampTokens(4096, 65536)
    /\ NoRequest("auth")
    /\ clock = 0
    /\ result = NoResult
    /\ list_format = [t \in RegTypes |-> "dict"]
    /\ RATE_LIMIT_ATTEMPTS \in 1..MaxLimit
    /\ RATE_LIMIT_WINDOW \in 1..MaxWindow
    /\ failed_attempts = [ip \in Ips |-> <<>>]
    /\ reqs = [w \in Workers |-> Idle]

\* a request enters decorated_function: check_rate_limit reads the time and
\* builds the list of the records it keeps
FilterAttempts(w, ip, api_key) ==
    /\ pc = "auth"
    /\ reqs[w].pc \in {"idle", "done"}
    /\ reqs' = [reqs EXCEPT ![w] =
                   [pc |-> "store", ip |-> ip, api_key |-> api_key,
                    kept |-> recent(failed_attempts[ip], clock),
                    code |-> None, ran |-> FALSE, recorded |-> FALSE,
                    locked |-> LockedOut(ip), lifted |-> WindowElapsed(ip)]]
    /\ UNCHANGED <<clock, registryv, RATE_LIMIT_ATTEMPTS, RATE_LIMIT_WINDOW,
                   failed_attempts, auditv, config, pc, request, answerv, idx,
                   raw_answer, custom_model_id, response, chatv, dl_ok, cand,
                   cur, tried>>

\* check_rate_limit stores the list and tests its length; a limited request
\* is answered 429
CheckRateLimit(w) ==
    /\ pc = "auth"
    /\ reqs[w].pc = "store"
    /\ failed_attempts' = [failed_attempts EXCEPT ![reqs[w].ip] = reqs[w].kept]
    /\ reqs' = [reqs EXCEPT ![w] =
                   IF rate_limited(reqs[w].kept)
                   THEN [@ EXCEPT !.pc = "done", !.code = "RATE_LIMITED",
                                  !.kept = <<>>]
                   ELSE [@ EXCEPT !.pc = "key", !.kept = <<>>]]
    /\ UNCHANGED <<clock, registryv, RATE_LIMIT_ATTEMPTS, RATE_LIMIT_WINDOW,
                   auditv, config, pc, request, answerv, idx,
                   raw_answer, custom_model_id, response, chatv, dl_ok, cand,
                   cur, tried>>

\* the rest of decorated_function: the key is missing, wrong, or right
Authenticate(w) ==
    /\ pc = "auth"
    /\ reqs[w].pc = "key"
    /\ IF reqs[w].api_key = "none"
       THEN /\ failed_attempts' = [failed_attempts EXCEPT ![reqs[w].ip] =
                                       Append(@, clock)]
            /\ reqs' = [reqs EXCEPT ![w] = [@ EXCEPT !.pc = "done",
                                               !.code = "MISSING_KEY",
                                               !.recorded = TRUE]]
       ELSE IF ~verify_key(reqs[w].api_key)
       THEN /\ failed_attempts' = [failed_attempts EXCEPT ![reqs[w].ip] =
                                       Append(@, clock)]
            /\ reqs' = [reqs EXCEPT ![w] = [@ EXCEPT !.pc = "done",
                                               !.code = "INVALID_KEY",
                                               !.recorded = TRUE]]
       ELSE /\ failed_attempts' = [failed_attempts EXCEPT ![reqs[w].ip] = <<>>]
            /\ reqs' = [reqs EXCEPT ![w] = [@ EXCEPT !.pc = "done",
                                               !.code = "OK", !.ran = TRUE]]
    /\ UNCHANGED <<clock, registryv, RATE_LIMIT_ATTEMPTS, RATE_LIMIT_WINDOW,
                   auditv, config, pc, request, answerv, idx,
                   raw_answer, custom_model_id, response, chatv, dl_ok, cand,
                   cur, tried>>

\* a second passes
Tick ==
    /\ pc = "auth"
    /\ clock < MaxClock
    /\ clock' = clock + 1
    /\ UNCHANGED <<registryv, securityv, auditv, config, pc, request, answerv, idx,
                   raw_answer, custom_model_id, response, chatv, dl_ok, cand,
                   cur, tried>>

AuthNext ==
    \/ \E w \in Workers, ip \in Ips, k \in Keys : FilterAttempts(w, ip, k)
    \/ \E w \in Workers : CheckRateLimit(w)
    \/ \E w \in Workers : Authenticate(w)
    \/ Tick

AuthSpec == AuthInit /\ [][AuthNext]_vars

C38_LockoutLifts ==
    [][\A w \in Workers :
          /\ (reqs[w].pc = "store" /\ reqs'[w].pc # "store" /\ reqs[w].lifted) =>
                 reqs'[w].pc = "key"
          /\ (reqs[w].pc = "key" /\ reqs'[w].pc # "key"
                 /\ reqs[w].api_key = "good") =>
                 /\ reqs'[w].code = "OK" /\ reqs'[w].ran
                 /\ failed_attempts'[reqs[w].ip] = <<>>]_vars

=============================================================================
